---- MODULE Spec2Model ----
(***************************************************************************)
(* CPU scheduling simulation engine: the policy simulators (fcfs, sjf,     *)
(* srt, rr, hrrn, priority, feedback, fbv, mlfq), the metrics aggregator   *)
(* computeAverages and the dispatcher runAlgorithm.  One behaviour is one  *)
(* call of runAlgorithm(name, processes, options): the initial state holds *)
(* the arguments, RunAlgorithm is the dispatcher's entry together with the *)
(* simulator's prologue, every later step is one iteration of the          *)
(* simulator's main loop, and Return is the code after the loop.           *)
(*                                                                         *)
(* JavaScript arrays are 0-based; sequences here are 1-based.  The index   *)
(* variables keep the source's 0-based values (nextArrivalIdx, iter) and   *)
(* are shifted by one where they subscript a sequence.  Process objects    *)
(* shared between arrays (sorted, the queues) are modelled by their index  *)
(* in procs.                                                               *)
(***************************************************************************)
EXTENDS Integers, Sequences, FiniteSets, TLC

\* ------------------------------------------------------------------------
\* Bounds of the model
\* ------------------------------------------------------------------------
MaxProcs == 3
MaxArrival == 2
MaxBurst == 2
LongBurst == 7
MaxQuantum == 2
MaxPriority == 1
\* A non-positive clock only occurs when rr is given a negative quantum; the
\* loop then never ends, and the model follows it down to -MaxRewind.
MaxRewind == 2
\* The longest list given to handleCompare, which runs every policy on it.
MaxCompareProcs == 2
\* The longest list with which the caller repeats a call.
MaxRerunProcs == 2
\* The longest list in which a process may come without a priority (priority
\* policy) or with one (fcfs).
MaxExtraProcs == 2
\* The longest list the caller passes again in another order.
MaxPermProcs == 3
\* A burst that leaves a process several units to run at mlfq's lowest level
\* (2 + 4 + 3), and an arrival time that falls into that last run.
LevelTwoBurst == 9
LateArrival == 7
\* A burst that keeps a process running at fbv's lowest level for more than one
\* slice (1 + 2 + 4 + 8 + 16 + 16 + 1).
DeepBurst == 48
\* The clock of the AI service moves in steps of TickMs, MaxTicks times.
TickMs == 15000
MaxTicks == 4
\* Requests to the API that may be awaiting their answer at one time.
MaxPending == 1

\* ------------------------------------------------------------------------
\* Program constants
\* ------------------------------------------------------------------------
\* The timeline occupant 'idle'.  Pids are positive, so 0 is free to stand for it.
IDLE == 0
\* srt's lastPid = null.
NULL == 0
\* roundRobin: options.quantum || 2
DefaultQuantum == 2
\* feedbackGeneric
NUM_QUEUES == 5
\* handleCompare: options.quantum = 2
CompareQuantum == 2
\* Variant: the third level is round robin too, with a quantum of 1.
LEVELSAllRoundRobin ==
  << [quantum |-> 2, infinite |-> FALSE, policy |-> "rr"],
     [quantum |-> 4, infinite |-> FALSE, policy |-> "rr"],
     [quantum |-> 1, infinite |-> FALSE, policy |-> "rr"] >>

\* aiService: RATE_LIMIT.maxRequests, windowMs, cooldownMs
maxRequests == 10
windowMs == 60 * 1000
cooldownMs == 30 * 1000
\* Date.now() when the service is loaded: later than cooldownMs after time 0.
StartTime == 1000000

\* mlfq: LEVELS; the third level's quantum is Infinity
LEVELS ==
  << [quantum |-> 2, infinite |-> FALSE, policy |-> "rr"],
     [quantum |-> 4, infinite |-> FALSE, policy |-> "rr"],
     [quantum |-> 0, infinite |-> TRUE, policy |-> "fcfs"] >>

\* The registry.  fn names the simulator; aging's simulator is imported from a
\* file that is not part of the sources at hand.
ALGORITHMS ==
  [ fcfs     |-> [shortName |-> "FCFS", type |-> "Non-preemptive", needsQuantum |-> FALSE, needsPriority |-> FALSE],
    sjf      |-> [shortName |-> "SJF", type |-> "Non-preemptive", needsQuantum |-> FALSE, needsPriority |-> FALSE],
    srt      |-> [shortName |-> "SRT", type |-> "Preemptive", needsQuantum |-> FALSE, needsPriority |-> FALSE],
    rr       |-> [shortName |-> "RR", type |-> "Preemptive", needsQuantum |-> TRUE, needsPriority |-> FALSE],
    hrrn     |-> [shortName |-> "HRRN", type |-> "Non-preemptive", needsQuantum |-> FALSE, needsPriority |-> FALSE],
    priority |-> [shortName |-> "Priority", type |-> "Non-preemptive", needsQuantum |-> FALSE, needsPriority |-> TRUE],
    feedback |-> [shortName |-> "FB", type |-> "Preemptive", needsQuantum |-> FALSE, needsPriority |-> FALSE],
    fbv      |-> [shortName |-> "FBV", type |-> "Preemptive", needsQuantum |-> FALSE, needsPriority |-> FALSE],
    aging    |-> [shortName |-> "Aging", type |-> "Preemptive", needsQuantum |-> FALSE, needsPriority |-> TRUE],
    mlfq     |-> [shortName |-> "MLFQ", type |-> "Preemptive", needsQuantum |-> FALSE, needsPriority |-> FALSE] ]

\* ------------------------------------------------------------------------
\* State
\* ------------------------------------------------------------------------
VARIABLES
  name,            \* runAlgorithm's policy key
  processes,       \* the caller's process list
  options,         \* the caller's options: quantum present or not, and its value
  pc,              \* "call" | "loop" | "done"
  procs,           \* the run's working copies
  completed,       \* sjf, hrrn, priority: completed[i]
  sorted,          \* indices of procs in (arrival, pid) order
  queues,          \* the ready queues, highest level first (rr: its one queue)
  nextArrivalIdx,  \* 0-based position in sorted of the next process to admit
  iter,            \* fcfs: 0-based position of the for-of loop in sorted
  timeline,
  results,
  currentTime,
  done,
  lastPid,         \* srt
  segStart,        \* srt
  outcome,         \* what runAlgorithm returned
  compare,         \* handleCompare: its progress through the registry
  input,           \* the caller's own list, the array object it passed
  earlier,         \* what the same call returned the time before, if repeated
  RATE_LIMIT,      \* aiService: requests (timestamps) and coolingDown
  apiKey,          \* aiService: whether OPENAI_API_KEY is set
  dateNow,         \* Date.now()
  pending,         \* aiService: requests sent to the API and not yet answered
  recent,          \* history: the times within the last window at which checkRateLimit allowed a call
  hit              \* history: the last denial for reaching the limit and what followed it

aiVars == << RATE_LIMIT, apiKey, dateNow, pending, recent, hit >>

runVars == << name, processes, options, pc, procs, completed, sorted, queues,
              nextArrivalIdx, iter, timeline, results, currentTime, done,
              lastPid, segStart, outcome, compare, input, earlier >>

vars == << runVars, aiVars >>

\* ------------------------------------------------------------------------
\* Helpers
\* ------------------------------------------------------------------------
\* Variant: the slice is the quantum even when less work remains.
MinFirst(a, b) == a

Min(a, b) == IF a < b THEN a ELSE b

\* The least element of a non-empty set of integers (Math.min(...xs)).
MinOf(S) == CHOOSE x \in S : \A y \in S : x <= y

RECURSIVE SumSeq(_)
SumSeq(s) == IF Len(s) = 0 THEN 0 ELSE Head(s) + SumSeq(Tail(s))

\* 2^k (Math.pow(2, k))
RECURSIVE Pow2(_)
Pow2(k) == IF k = 0 THEN 1 ELSE 2 * Pow2(k - 1)

\* The pairs of positions of s, on which a comparator is tabulated.
Pairs(s) == (1..Len(s)) \X (1..Len(s))

\* Array.prototype.sort, a stable sort: elements that the comparator does not
\* separate keep their order. less[<<i, j>>] is the comparator's verdict
\* "s[i] sorts before s[j]".
StableSort(s, less) ==
  LET n == Len(s)
      Before(i, j) == less[<<i, j>>] \/ (~less[<<j, i>>] /\ i < j)
      rank(i) == 1 + Cardinality({ j \in 1..n : j # i /\ Before(j, i) })
  IN [ k \in 1..n |-> s[CHOOSE i \in 1..n : rank(i) = k] ]

\* Variant: among equal arrivals the shorter burst goes first.
ByArrivalThenBurst(a, b) ==
  \/ a.arrival < b.arrival
  \/ a.arrival = b.arrival /\ a.burst < b.burst
  \/ a.arrival = b.arrival /\ a.burst = b.burst /\ a.pid < b.pid

\* (a, b) => a.arrival - b.arrival || a.pid - b.pid
ByArrivalThenPid(a, b) ==
  \/ a.arrival < b.arrival
  \/ a.arrival = b.arrival /\ a.pid < b.pid

\* (a, b) => a.pid - b.pid
ByPid(a, b) == a.pid < b.pid

\* Variant: the comparator looks at the arrival alone, so that processes of
\* equal arrival keep their order in the list.
SortedIndicesByArrival(ps) ==
  StableSort([ i \in 1..Len(ps) |-> i ],
             [ ij \in Pairs(ps) |-> ps[ij[1]].arrival < ps[ij[2]].arrival ])

\* The indices of ps, ordered as [...ps].sort(ByArrivalThenPid) orders its elements.
SortedIndices(ps) ==
  StableSort([ i \in 1..Len(ps) |-> i ],
             [ ij \in Pairs(ps) |-> ByArrivalThenPid(ps[ij[1]], ps[ij[2]]) ])

\* Variant: the arrival time is not subtracted from the completion time.
MkResultFromZero(p, completion, firstStart) ==
  [ pid |-> p.pid, arrival |-> p.arrival, burst |-> p.burst, priority |-> p.priority,
    completion |-> completion,
    turnaround |-> completion,
    waiting |-> completion - p.burst,
    response |-> firstStart - p.arrival ]

\* The record pushed on results when a process completes.
MkResult(p, completion, firstStart) ==
  [ pid |-> p.pid, arrival |-> p.arrival, burst |-> p.burst, priority |-> p.priority,
    completion |-> completion,
    turnaround |-> completion - p.arrival,
    waiting |-> (completion - p.arrival) - p.burst,
    response |-> firstStart - p.arrival ]

\* A quotient a / b of two integers, kept exact as numerator and denominator.
Quot(a, b) == [num |-> a, den |-> b]

\* Variant: the response average is taken from the waiting times.
computeAveragesWaitingTwice(rs) ==
  LET n == Len(rs)
  IN IF n = 0
     THEN [avgTurnaround |-> 0, avgWaiting |-> 0, avgResponse |-> 0]
     ELSE [avgTurnaround |-> Quot(SumSeq([i \in 1..n |-> rs[i].turnaround]), n),
           avgWaiting |-> Quot(SumSeq([i \in 1..n |-> rs[i].waiting]), n),
           avgResponse |-> Quot(SumSeq([i \in 1..n |-> rs[i].waiting]), n)]

\* For no results the three averages are the number 0, returned before any
\* division; otherwise each is the quotient of a sum and n.
computeAverages(rs) ==
  LET n == Len(rs)
  IN IF n = 0
     THEN [avgTurnaround |-> 0, avgWaiting |-> 0, avgResponse |-> 0]
     ELSE [avgTurnaround |-> Quot(SumSeq([i \in 1..n |-> rs[i].turnaround]), n),
           avgWaiting |-> Quot(SumSeq([i \in 1..n |-> rs[i].waiting]), n),
           avgResponse |-> Quot(SumSeq([i \in 1..n |-> rs[i].response]), n)]

\* Variant: a process is admitted only after its arrival time has passed
\* (arrival < currentTime).
RECURSIVE AdmitArrivalsLate(_, _, _, _, _)
AdmitArrivalsLate(ps, order, q, idx, t) ==
  IF idx < Len(ps) /\ ps[order[idx + 1]].arrival < t
  THEN AdmitArrivalsLate(ps, order, Append(q, order[idx + 1]), idx + 1, t)
  ELSE [queue |-> q, nextArrivalIdx |-> idx]

\* while (nextArrivalIdx < n && sorted[nextArrivalIdx].arrival <= currentTime)
\*   { queue.push(sorted[nextArrivalIdx]); nextArrivalIdx++; }
RECURSIVE AdmitArrivals(_, _, _, _, _)
AdmitArrivals(ps, order, q, idx, t) ==
  IF idx < Len(ps) /\ ps[order[idx + 1]].arrival <= t
  THEN AdmitArrivals(ps, order, Append(q, order[idx + 1]), idx + 1, t)
  ELSE [queue |-> q, nextArrivalIdx |-> idx]

\* Math.min() of no arguments is Infinity; here a time later than every finite
\* time of a run.
Infinity == 2 * (MaxArrival + MaxProcs * LongBurst + 1)

\* Math.max(...procs.map(p => p.arrival)) + procs.reduce((s, p) => s + p.burst, 0) + 1
MaxTimeOf(ps) ==
  LET arr == { ps[i].arrival : i \in 1..Len(ps) }
  IN (CHOOSE x \in arr : \A y \in arr : y <= x)
     + SumSeq([i \in 1..Len(ps) |-> ps[i].burst]) + 1

\* ------------------------------------------------------------------------
\* Inputs
\* ------------------------------------------------------------------------
Simulators == {"fcfs", "sjf", "srt", "rr", "hrrn", "priority", "feedback", "fbv", "mlfq"}
UnknownKey == "lottery"

\* ALGORITHMS is a plain object: ALGORITHMS[name] follows the prototype chain,
\* so the names of Object.prototype's properties are found in it although they
\* are no entries of the registry.  What is found has no fn.
InheritedKeys == {"constructor", "toString"}

\* aging is an entry of the registry whose simulator is imported from a file
\* that is not at hand: it is called with the empty list only, the one call
\* that runAlgorithm answers without the simulator.
Keys == Simulators \cup {"aging"} \cup {UnknownKey} \cup InheritedKeys

Arrivals == 0..MaxArrival

\* Bursts are short.  srt and the policies with several queue levels also get
\* one long burst: srt preempts only a process with more than one unit left,
\* and the long burst takes a process down to mlfq's lowest level (2 + 4 + 1).
\* srt, the one simulator whose loop is guarded by a time bound, is also
\* called with a burst of 0, which runAlgorithm passes on as it is.
BurstsFor(k) ==
  IF k = "srt" THEN (0..MaxBurst) \cup {LongBurst}
  ELSE IF k \in {"feedback", "fbv", "mlfq"}
  THEN (1..MaxBurst) \cup {LongBurst}
  ELSE 1..MaxBurst

\* The value of p.priority for a process object that has no priority field.
undefined == 0 - 1

\* Priority is read by the priority policy only; elsewhere it is 0.
PrioritiesFor(k) ==
  IF k \in DOMAIN ALGORITHMS /\ ALGORITHMS[k].needsPriority THEN 0..MaxPriority ELSE {0}

\* options.quantum: absent, or an integer (negative, zero, positive).  Only a
\* policy that takes a quantum is given one.
NoOptions == [hasQuantum |-> FALSE, quantum |-> 0]
OptionsFor(k) ==
  IF k \in DOMAIN ALGORITHMS /\ ALGORITHMS[k].needsQuantum
  THEN {NoOptions} \cup { [hasQuantum |-> TRUE, quantum |-> q] : q \in (0 - 1)..MaxQuantum }
  ELSE {NoOptions}

\* The pids 1..n of a list of n processes, in list order: ascending or
\* descending, so every two pids occur in both relative orders.
PidOrders(n) == { [ i \in 1..n |-> i ], [ i \in 1..n |-> (n + 1) - i ] }

\* Process lists of 0..MaxProcs processes with pairwise distinct pids;
\* arrival, burst and priority are free for each pid.
ProcessListsUpTo(max, bursts, prios) ==
  UNION { { [ i \in 1..n |-> [pid |-> f[i], arrival |-> a[i], burst |-> b[i], priority |-> pr[i]] ] :
              f \in PidOrders(n), a \in [1..n -> Arrivals],
              b \in [1..n -> bursts], pr \in [1..n -> prios] } :
          n \in 0..max }

ProcessLists(bursts, prios) == ProcessListsUpTo(MaxProcs, bursts, prios)

\* The calls the model makes: runAlgorithm(key, ps, opts)
\* The list that add 1 0 5, add 2 1 3, add 3 2 4 builds, and the same
\* processes entered in the opposite order.
ReferenceProcesses ==
  << [pid |-> 1, arrival |-> 0, burst |-> 5, priority |-> 0],
     [pid |-> 2, arrival |-> 1, burst |-> 3, priority |-> 0],
     [pid |-> 3, arrival |-> 2, burst |-> 4, priority |-> 0] >>

ReferenceLists ==
  { ReferenceProcesses, [ i \in 1..3 |-> ReferenceProcesses[4 - i] ] }

\* Lists handed to the priority policy in which a process may come without a
\* priority.
MissingPriorityLists ==
  ProcessListsUpTo(MaxExtraProcs, BurstsFor("priority"), {undefined} \cup (0..MaxPriority))

\* Lists handed to fcfs in which the processes have priorities.
FcfsPriorityLists ==
  ProcessListsUpTo(MaxExtraProcs, BurstsFor("fcfs"), 0..MaxPriority)

\* Lists handed to mlfq in which the second process arrives when the first is
\* at the lowest level: at the start of its last run or during it.
MlfqLateLists ==
  { << [pid |-> 1, arrival |-> 0, burst |-> LevelTwoBurst, priority |-> 0],
       [pid |-> 2, arrival |-> a, burst |-> b, priority |-> 0] >> :
      a \in (LateArrival - 1)..(LateArrival + 1), b \in 1..MaxBurst }

\* A list handed to fbv whose one process goes down to the lowest queue and
\* is dispatched from it more than once.
FbvDeepLists ==
  { << [pid |-> 1, arrival |-> 0, burst |-> DeepBurst, priority |-> 0] >> }

ProcessListsFor(k) ==
  IF k = "aging" THEN { << >> }
  ELSE IF k = "fbv" THEN ProcessLists(BurstsFor(k), PrioritiesFor(k)) \cup FbvDeepLists
  ELSE IF k = "mlfq" THEN ProcessLists(BurstsFor(k), PrioritiesFor(k)) \cup MlfqLateLists
  ELSE IF k = "priority" THEN ProcessLists(BurstsFor(k), PrioritiesFor(k)) \cup MissingPriorityLists
  ELSE IF k = "fcfs"
       THEN ProcessLists(BurstsFor(k), PrioritiesFor(k)) \cup ReferenceLists \cup FcfsPriorityLists
  ELSE ProcessLists(BurstsFor(k), PrioritiesFor(k))

Pending == [kind |-> "pending"]

\* Object.entries(ALGORITHMS): the registry's keys in the order they are written
AlgorithmKeys ==
  << "fcfs", "sjf", "srt", "rr", "hrrn", "priority", "feedback", "fbv", "aging", "mlfq" >>

\* handleCompare has not been called.
CompareIdle ==
  [ status |-> "idle", processes |-> << >>, idx |-> 0, allResults |-> << >>, calls |-> << >> ]

\* The AI service as the module is loaded: no request made yet.  NoTime
\* stands for a time that has not come.
NoTime == 0 - 1
NoHit == [at |-> NoTime, next |-> NoTime, late |-> ""]
aiLoaded ==
  /\ RATE_LIMIT = [requests |-> << >>, coolingDown |-> FALSE]
  /\ dateNow = StartTime
  /\ pending = 0
  /\ recent = << >>
  /\ hit = NoHit

\* The scheduler before the call: no arguments yet, nothing set up.
shellIdle ==
  /\ name = ""
  /\ processes = << >>
  /\ options = NoOptions
  /\ pc = "call"
  /\ procs = << >>
  /\ completed = << >>
  /\ sorted = << >>
  /\ queues = << >>
  /\ nextArrivalIdx = 0
  /\ iter = 0
  /\ timeline = << >>
  /\ results = << >>
  /\ currentTime = 0
  /\ done = 0
  /\ lastPid = NULL
  /\ segStart = 0
  /\ outcome = Pending
  /\ compare = CompareIdle
  /\ input = << >>
  /\ earlier = Pending

\* The scheduler is exercised with the AI service left alone, its key set.
Init ==
  /\ shellIdle
  /\ aiLoaded
  /\ apiKey = TRUE

\* ------------------------------------------------------------------------
\* The simulators' prologues: the state each sets up before its main loop
\* ------------------------------------------------------------------------
\* Variant: the caller's array itself is sorted (processes.sort(...)).
InputSortedInPlace(ps) == [ i \in 1..Len(ps) |-> ps[SortedIndices(ps)[i]] ]

\* The caller's list once the prologue has run.  fcfs sorts [...processes], a
\* new array, and only reads the objects in it; every other simulator works
\* on processes.map(p => ({ ...p, ... })), a new array of new objects.  The
\* caller's array and its objects are what they were.
InputAfterCopy(ps) == ps

\* processes.map(p => ({ ...p }))
Clone(ps) == [ i \in 1..Len(ps) |-> ps[i] ]

\* Variant: the time left starts one unit above the burst.
WorkingOneOver(ps) ==
  [ i \in 1..Len(ps) |->
      [ pid |-> ps[i].pid, arrival |-> ps[i].arrival, burst |-> ps[i].burst,
        priority |-> ps[i].priority,
        remaining |-> ps[i].burst + 1, started |-> FALSE, firstStart |-> 0 - 1 ] ]

\* processes.map(p => ({ ...p, remaining: p.burst, started: false, firstStart: -1 }))
Working(ps) ==
  [ i \in 1..Len(ps) |->
      [ pid |-> ps[i].pid, arrival |-> ps[i].arrival, burst |-> ps[i].burst,
        priority |-> ps[i].priority,
        remaining |-> ps[i].burst, started |-> FALSE, firstStart |-> 0 - 1 ] ]

\* ... with level: 0 (mlfq) or queueLevel: 0 (feedbackGeneric)
WorkingLevel(ps) ==
  [ i \in 1..Len(ps) |->
      [ pid |-> ps[i].pid, arrival |-> ps[i].arrival, burst |-> ps[i].burst,
        priority |-> ps[i].priority,
        remaining |-> ps[i].burst, started |-> FALSE, firstStart |-> 0 - 1, level |-> 0 ] ]

EmptyQueues(k) == [ q \in 1..k |-> << >> ]

\* Variant: the clock is not set back: it is shared by all runs.
StartClockShared ==
  /\ timeline' = << >>
  /\ results' = << >>
  /\ currentTime' = currentTime
  /\ done' = 0
  /\ iter' = 0
  /\ lastPid' = NULL
  /\ segStart' = 0

\* The part every prologue shares: empty timeline and results, clock 0.
StartClock ==
  /\ timeline' = << >>
  /\ results' = << >>
  /\ currentTime' = 0
  /\ done' = 0
  /\ iter' = 0
  /\ lastPid' = NULL
  /\ segStart' = 0

fcfsBegin(ps) ==
  /\ procs' = << >>
  /\ sorted' = SortedIndices(ps)
  /\ completed' = << >>
  /\ queues' = << >>
  /\ nextArrivalIdx' = 0
  /\ StartClock

\* sjf, priority, hrrn
pickBegin(ps) ==
  /\ procs' = Clone(ps)
  /\ completed' = [ i \in 1..Len(ps) |-> FALSE ]
  /\ sorted' = << >>
  /\ queues' = << >>
  /\ nextArrivalIdx' = 0
  /\ StartClock

srtBegin(ps) ==
  /\ procs' = Working(ps)
  /\ completed' = << >>
  /\ sorted' = << >>
  /\ queues' = << >>
  /\ nextArrivalIdx' = 0
  /\ StartClock

\* rr, feedback, fbv, mlfq: the working copies, the arrival order and the
\* processes that have arrived at time 0 in the top queue.
queueBegin(ps, numQueues) ==
  LET order == SortedIndices(ps)
      adm == AdmitArrivals(ps, order, << >>, 0, 0)
  IN /\ procs' = ps
     /\ sorted' = order
     /\ completed' = << >>
     /\ queues' = [ EmptyQueues(numQueues) EXCEPT ![1] = adm.queue ]
     /\ nextArrivalIdx' = adm.nextArrivalIdx
     /\ StartClock

\* ------------------------------------------------------------------------
\* runAlgorithm: entry
\* ------------------------------------------------------------------------
\* What runAlgorithm returns when it runs aging, whose simulator is not at
\* hand: by the engine's contract a run yields an outcome or an error, so
\* either the simulator returned and the outcome is tagged with the entry's
\* shortName (its timeline and results are left open), or it threw and the
\* catch made an error of it.
AgingOutcomes ==
  { [kind |-> "ok", shortName |-> ALGORITHMS["aging"].shortName],
    [kind |-> "error", error |-> "Algorithm error"] }

\* Variant: an empty list is answered with an empty outcome.
EmptyOutcome ==
  [ kind |-> "ok", timeline |-> << >>, results |-> << >>,
    averages |-> computeAverages(<< >>), shortName |-> "" ]

\* return { error: 'No processes to schedule' }
NoProcessesError == [kind |-> "error", error |-> "No processes to schedule"]

\* const algo = ALGORITHMS[name]; !algo is false
Found(key) == key \in DOMAIN ALGORITHMS \/ key \in InheritedKeys

\* if (!algo) return { error: 'Unknown algorithm: ...' };
\* if (processes.length === 0) return { error: 'No processes to schedule' };
\* try { return { ...algo.fn(processes, options), ... } } catch (err)
\*   { return { error: 'Algorithm error: ...' } }
\* Calling the fn that an inherited property lacks throws a TypeError, which
\* the catch turns into the third error.
RunAlgorithm(key, ps, opts) ==
  /\ name' = key
  /\ processes' = ps
  /\ options' = opts
  /\ IF ~Found(key)
     THEN /\ outcome' = [kind |-> "error", error |-> "Unknown algorithm"]
          /\ pc' = "done"
          /\ input' = ps
          /\ UNCHANGED << procs, completed, sorted, queues, nextArrivalIdx, iter,
                          timeline, results, currentTime, done, lastPid, segStart >>
     ELSE IF Len(ps) = 0
     THEN /\ outcome' = NoProcessesError
          /\ pc' = "done"
          /\ input' = ps
          /\ UNCHANGED << procs, completed, sorted, queues, nextArrivalIdx, iter,
                          timeline, results, currentTime, done, lastPid, segStart >>
     ELSE IF key \in InheritedKeys
     THEN /\ outcome' = [kind |-> "error", error |-> "Algorithm error"]
          /\ pc' = "done"
          /\ input' = ps
          /\ UNCHANGED << procs, completed, sorted, queues, nextArrivalIdx, iter,
                          timeline, results, currentTime, done, lastPid, segStart >>
     ELSE IF key = "aging"
     THEN /\ outcome' \in AgingOutcomes
          /\ pc' = "done"
          /\ input' = ps
          /\ UNCHANGED << procs, completed, sorted, queues, nextArrivalIdx, iter,
                          timeline, results, currentTime, done, lastPid, segStart >>
     ELSE /\ outcome' = Pending
          /\ pc' = "loop"
          /\ input' = InputAfterCopy(ps)
          /\ CASE key = "fcfs" -> fcfsBegin(ps)
               [] key \in {"sjf", "priority", "hrrn"} -> pickBegin(ps)
               [] key = "srt" -> srtBegin(ps)
               [] key = "rr" -> queueBegin(Working(ps), 1)
               [] key \in {"feedback", "fbv"} -> queueBegin(WorkingLevel(ps), NUM_QUEUES)
               [] key = "mlfq" -> queueBegin(WorkingLevel(ps), Len(LEVELS))

\* ------------------------------------------------------------------------
\* fcfs
\* ------------------------------------------------------------------------
Segment(pid, start, end) == [pid |-> pid, start |-> start, end |-> end]

\* Variant: a process starts at its arrival, whatever the clock says.
fcfsStartAtArrival(proc) == proc.arrival

\* if (currentTime < proc.arrival) currentTime = proc.arrival; start = currentTime
fcfsStart(proc) == IF currentTime < proc.arrival THEN proc.arrival ELSE currentTime

\* One iteration of for (const proc of sorted).
fcfs ==
  /\ pc = "loop" /\ name = "fcfs"
  /\ iter < Len(sorted)
  /\ LET proc == processes[sorted[iter + 1]]
         idle == currentTime < proc.arrival
         start == fcfsStart(proc)
         end == start + proc.burst
         tl == IF idle THEN Append(timeline, Segment(IDLE, currentTime, proc.arrival))
               ELSE timeline
     IN /\ timeline' = Append(tl, Segment(proc.pid, start, end))
        /\ results' = Append(results, MkResult(proc, end, start))
        /\ currentTime' = end
        /\ iter' = iter + 1
  /\ UNCHANGED << aiVars, compare, input, earlier, name, processes, options, pc, procs, completed, sorted, queues,
                  nextArrivalIdx, done, lastPid, segStart, outcome >>

\* ------------------------------------------------------------------------
\* sjf, priority, hrrn: pick one arrived process and run it to completion
\* ------------------------------------------------------------------------
Indices(ps) == [ i \in 1..Len(ps) |-> i ]

\* Variant: every process not yet completed is a candidate, arrived or not.
ArrivedOrNot == SelectSeq(Indices(procs), LAMBDA i : ~completed[i])

\* for (i ...) if (!completed[i] && procs[i].arrival <= currentTime) candidates.push(i)
Arrived == SelectSeq(Indices(procs), LAMBDA i : ~completed[i] /\ procs[i].arrival <= currentTime)

\* Variant: the clock jumps to the next arrival and no idle segment is recorded.
idleUnrecorded ==
  LET nextArrival == MinOf({ procs[i].arrival : i \in { j \in 1..Len(procs) : ~completed[j] } })
  IN /\ timeline' = timeline
     /\ currentTime' = nextArrival
     /\ UNCHANGED << results, completed, done >>

\* candidates.length === 0: one idle segment up to the next arrival
idleUntilNextArrival ==
  LET nextArrival == MinOf({ procs[i].arrival : i \in { j \in 1..Len(procs) : ~completed[j] } })
  IN /\ timeline' = Append(timeline, Segment(IDLE, currentTime, nextArrival))
     /\ currentTime' = nextArrival
     /\ UNCHANGED << results, completed, done >>

\* Variant: the run of the chosen process is cut short at the first arrival
\* of another process during it.
runUntilPreempted(idx) ==
  LET proc == procs[idx]
      start == currentTime
      during == { procs[i].arrival : i \in { j \in 1..Len(procs) :
                    ~completed[j] /\ procs[j].arrival > start
                                 /\ procs[j].arrival < start + proc.burst } }
      end == IF during = {} THEN start + proc.burst ELSE MinOf(during)
  IN /\ timeline' = Append(timeline, Segment(proc.pid, start, end))
     /\ results' = Append(results, MkResult(proc, end, start))
     /\ completed' = [completed EXCEPT ![idx] = TRUE]
     /\ currentTime' = end
     /\ done' = done + 1

\* The chosen process idx runs from currentTime for its whole burst.
runToCompletion(idx) ==
  LET proc == procs[idx]
      start == currentTime
      end == start + proc.burst
  IN /\ timeline' = Append(timeline, Segment(proc.pid, start, end))
     /\ results' = Append(results, MkResult(proc, end, start))
     /\ completed' = [completed EXCEPT ![idx] = TRUE]
     /\ currentTime' = end
     /\ done' = done + 1

\* Variant: equal bursts are ordered by pid alone.
sjfLessNoArrival(a, b) ==
  IF procs[a].burst # procs[b].burst THEN procs[a].burst < procs[b].burst
  ELSE procs[a].pid < procs[b].pid

\* sjf's comparator on indices: burst, then arrival, then pid
sjfLess(a, b) ==
  IF procs[a].burst # procs[b].burst THEN procs[a].burst < procs[b].burst
  ELSE IF procs[a].arrival # procs[b].arrival THEN procs[a].arrival < procs[b].arrival
  ELSE procs[a].pid < procs[b].pid

sjf ==
  /\ pc = "loop" /\ name = "sjf"
  /\ done < Len(procs)
  /\ IF Len(Arrived) = 0
     THEN idleUntilNextArrival
     ELSE runToCompletion(StableSort(Arrived, [ ij \in Pairs(Arrived) |-> sjfLess(Arrived[ij[1]], Arrived[ij[2]]) ])[1])
  /\ UNCHANGED << aiVars, compare, input, earlier, name, processes, options, pc, procs, sorted, queues,
                  nextArrivalIdx, iter, lastPid, segStart, outcome >>

\* Variant: a process without a priority is the least urgent.
priorityLessMissingLast(a, b) ==
  LET pa == IF procs[a].priority = undefined THEN MaxPriority + 1 ELSE procs[a].priority
      pb == IF procs[b].priority = undefined THEN MaxPriority + 1 ELSE procs[b].priority
  IN IF pa # pb THEN pa < pb
     ELSE IF procs[a].arrival # procs[b].arrival THEN procs[a].arrival < procs[b].arrival
     ELSE procs[a].pid < procs[b].pid

\* priority's comparator on indices: priority ?? 0 (lower first), then
\* arrival, then pid
priorityLess(a, b) ==
  LET pa == IF procs[a].priority = undefined THEN 0 ELSE procs[a].priority
      pb == IF procs[b].priority = undefined THEN 0 ELSE procs[b].priority
  IN IF pa # pb THEN pa < pb
     ELSE IF procs[a].arrival # procs[b].arrival THEN procs[a].arrival < procs[b].arrival
     ELSE procs[a].pid < procs[b].pid

priority ==
  /\ pc = "loop" /\ name = "priority"
  /\ done < Len(procs)
  /\ IF Len(Arrived) = 0
     THEN idleUntilNextArrival
     ELSE runToCompletion(StableSort(Arrived, [ ij \in Pairs(Arrived) |-> priorityLess(Arrived[ij[1]], Arrived[ij[2]]) ])[1])
  /\ UNCHANGED << aiVars, compare, input, earlier, name, processes, options, pc, procs, sorted, queues,
                  nextArrivalIdx, iter, lastPid, segStart, outcome >>

\* Variant: the ratio is waitingTime / burst.
responseRatioWaitOnly(i) == Quot(currentTime - procs[i].arrival, procs[i].burst)

\* responseRatio = (waitingTime + burst) / burst at the current clock.  The
\* quotient of two small integers is compared exactly by cross multiplication
\* (the division is correctly rounded, so equal quotients give equal doubles
\* and different ones differ).
responseRatio(i) == Quot((currentTime - procs[i].arrival) + procs[i].burst, procs[i].burst)

QuotLess(x, y) == x.num * y.den < y.num * x.den

\* Variant: the lowest response ratio comes first.
hrrnLessLowestFirst(a, b) ==
  IF QuotLess(responseRatio(a), responseRatio(b)) \/ QuotLess(responseRatio(b), responseRatio(a))
  THEN QuotLess(responseRatio(a), responseRatio(b))
  ELSE IF procs[a].arrival # procs[b].arrival THEN procs[a].arrival < procs[b].arrival
  ELSE procs[a].pid < procs[b].pid

\* hrrn's comparator: response ratio (higher first), then arrival, then pid
hrrnLess(a, b) ==
  IF QuotLess(responseRatio(a), responseRatio(b)) \/ QuotLess(responseRatio(b), responseRatio(a))
  THEN QuotLess(responseRatio(b), responseRatio(a))
  ELSE IF procs[a].arrival # procs[b].arrival THEN procs[a].arrival < procs[b].arrival
  ELSE procs[a].pid < procs[b].pid

\* candidates[0].index after the sort
hrrnChosen ==
  StableSort(Arrived, [ ij \in Pairs(Arrived) |-> hrrnLess(Arrived[ij[1]], Arrived[ij[2]]) ])[1]

hrrn ==
  /\ pc = "loop" /\ name = "hrrn"
  /\ done < Len(procs)
  /\ IF Len(Arrived) = 0
     THEN idleUntilNextArrival
     ELSE runToCompletion(hrrnChosen)
  /\ UNCHANGED << aiVars, compare, input, earlier, name, processes, options, pc, procs, sorted, queues,
                  nextArrivalIdx, iter, lastPid, segStart, outcome >>

\* ------------------------------------------------------------------------
\* srt: one unit of time per iteration
\* ------------------------------------------------------------------------
\* srt's comparator on indices: remaining, then arrival, then pid
\* Variant: the time left is not compared.
srtLessByArrival(a, b) ==
  IF procs[a].arrival # procs[b].arrival THEN procs[a].arrival < procs[b].arrival
  ELSE procs[a].pid < procs[b].pid

\* Variant: among equal times left the later arrival goes first.
srtLessNewestFirst(a, b) ==
  IF procs[a].remaining # procs[b].remaining THEN procs[a].remaining < procs[b].remaining
  ELSE IF procs[a].arrival # procs[b].arrival THEN procs[a].arrival > procs[b].arrival
  ELSE procs[a].pid < procs[b].pid

srtLess(a, b) ==
  IF procs[a].remaining # procs[b].remaining THEN procs[a].remaining < procs[b].remaining
  ELSE IF procs[a].arrival # procs[b].arrival THEN procs[a].arrival < procs[b].arrival
  ELSE procs[a].pid < procs[b].pid

\* Variant: every unit of time opens a segment.
srtSwitchAlways(p) == TRUE

\* if (chosen.pid !== lastPid)
srtSwitch(p) == p.pid # lastPid

\* Variant: the clock jumps to the last arrival still waited for.
srtNextArrivalLatest ==
  LET waiting == { procs[i].arrival : i \in { j \in 1..Len(procs) : procs[j].remaining > 0 } }
  IN IF waiting = {} THEN Infinity ELSE CHOOSE x \in waiting : \A y \in waiting : y <= x

\* Math.min(...procs.filter(p => p.remaining > 0).map(p => p.arrival))
srtNextArrival ==
  LET waiting == { procs[i].arrival : i \in { j \in 1..Len(procs) : procs[j].remaining > 0 } }
  IN IF waiting = {} THEN Infinity ELSE MinOf(waiting)

srt ==
  /\ pc = "loop" /\ name = "srt"
  /\ done < Len(procs) /\ currentTime < MaxTimeOf(procs)
  /\ LET candidates == SelectSeq(Indices(procs),
                         LAMBDA i : procs[i].arrival <= currentTime /\ procs[i].remaining > 0)
         flushed == IF lastPid # NULL
                    THEN Append(timeline, Segment(lastPid, segStart, currentTime))
                    ELSE timeline
     IN IF Len(candidates) = 0
        THEN LET nextArrival == srtNextArrival
             IN /\ timeline' = Append(flushed, Segment(IDLE, currentTime, nextArrival))
                /\ lastPid' = NULL
                /\ currentTime' = nextArrival
                /\ UNCHANGED << procs, results, done, segStart >>
        ELSE LET chosen == StableSort(candidates, [ ij \in Pairs(candidates) |-> srtLess(candidates[ij[1]], candidates[ij[2]]) ])[1]
                 p == procs[chosen]
                 switch == srtSwitch(p)
                 tl == IF switch THEN flushed ELSE timeline
                 seg == IF switch THEN currentTime ELSE segStart
                 first == IF ~p.started THEN currentTime ELSE p.firstStart
                 now == currentTime + 1
             IN /\ procs' = [procs EXCEPT ![chosen] =
                               [p EXCEPT !.started = TRUE, !.firstStart = first,
                                         !.remaining = p.remaining - 1]]
                /\ segStart' = seg
                /\ currentTime' = now
                /\ IF p.remaining - 1 = 0
                   THEN /\ timeline' = Append(tl, Segment(p.pid, seg, now))
                        /\ lastPid' = NULL
                        /\ results' = Append(results, MkResult(p, now, first))
                        /\ done' = done + 1
                   ELSE /\ timeline' = tl
                        /\ lastPid' = p.pid
                        /\ UNCHANGED << results, done >>
  /\ UNCHANGED << aiVars, compare, input, earlier, name, processes, options, pc, completed, sorted, queues,
                  nextArrivalIdx, iter, outcome >>

\* ------------------------------------------------------------------------
\* rr, feedback, fbv, mlfq: time slices from ready queues
\* ------------------------------------------------------------------------
\* Variant: only the top queue is looked at.
ActiveQueueTopOnly ==
  IF Len(queues[1]) = 0 THEN 0 - 1 ELSE 0

\* The highest non-empty queue, 0-based as in the source; -1 if all are empty.
ActiveQueue ==
  IF \A q \in 1..Len(queues) : Len(queues[q]) = 0
  THEN 0 - 1
  ELSE MinOf({ q \in 1..Len(queues) : Len(queues[q]) > 0 }) - 1

\* Variant: the clock advances one unit at a time through idle time.
idleOneTick ==
  IF nextArrivalIdx < Len(procs)
  THEN LET nextTime == currentTime + 1
           adm == AdmitArrivals(procs, sorted, queues[1], nextArrivalIdx, nextTime)
       IN /\ timeline' = Append(timeline, Segment(IDLE, currentTime, nextTime))
          /\ currentTime' = nextTime
          /\ queues' = [queues EXCEPT ![1] = adm.queue]
          /\ nextArrivalIdx' = adm.nextArrivalIdx
          /\ UNCHANGED << procs, results, done >>
  ELSE UNCHANGED << timeline, currentTime, queues, nextArrivalIdx, procs, results, done >>

\* No queue holds a process: an idle segment up to the next arrival, which is
\* then admitted to the top queue.  With nobody left to arrive the iteration
\* changes nothing.
idleUntilAdmitted ==
  IF nextArrivalIdx < Len(procs)
  THEN LET nextTime == procs[sorted[nextArrivalIdx + 1]].arrival
           adm == AdmitArrivals(procs, sorted, queues[1], nextArrivalIdx, nextTime)
       IN /\ timeline' = Append(timeline, Segment(IDLE, currentTime, nextTime))
          /\ currentTime' = nextTime
          /\ queues' = [queues EXCEPT ![1] = adm.queue]
          /\ nextArrivalIdx' = adm.nextArrivalIdx
          /\ UNCHANGED << procs, results, done >>
  ELSE UNCHANGED << timeline, currentTime, queues, nextArrivalIdx, procs, results, done >>

\* roundRobin: const quantum = options.quantum || 2
rrQuantum ==
  IF options.hasQuantum /\ options.quantum # 0 THEN options.quantum ELSE DefaultQuantum

\* Variant: a slice always lasts the whole quantum.
rrExecTimeWholeQuantum(p) == rrQuantum

\* const execTime = Math.min(quantum, proc.remaining)
rrExecTime(p) == Min(rrQuantum, p.remaining)

\* Variant: the process that just ran is pushed back before the newly arrived.
rrQueueRequeueFirst(idx, left, end) ==
  LET rest == IF left > 0 THEN Append(Tail(queues[1]), idx) ELSE Tail(queues[1])
  IN AdmitArrivals(procs, sorted, rest, nextArrivalIdx, end).queue

\* The queue after the slice of its head idx, which ends at time end with
\* left units to go: the newly arrived are pushed, then
\* if (proc.remaining > 0) queue.push(proc).
rrQueue(idx, left, end) ==
  LET adm == AdmitArrivals(procs, sorted, Tail(queues[1]), nextArrivalIdx, end)
  IN IF left > 0 THEN Append(adm.queue, idx) ELSE adm.queue

roundRobin ==
  /\ pc = "loop" /\ name = "rr"
  /\ done < Len(procs)
  /\ currentTime >= 0 - MaxRewind
  /\ IF Len(queues[1]) = 0
     THEN idleUntilAdmitted
     ELSE LET idx == Head(queues[1])
              p == procs[idx]
              first == IF ~p.started THEN currentTime ELSE p.firstStart
              execTime == rrExecTime(p)
              start == currentTime
              end == start + execTime
              left == p.remaining - execTime
              adm == AdmitArrivals(procs, sorted, Tail(queues[1]), nextArrivalIdx, end)
          IN /\ timeline' = Append(timeline, Segment(p.pid, start, end))
             /\ procs' = [procs EXCEPT ![idx] =
                            [p EXCEPT !.started = TRUE, !.firstStart = first, !.remaining = left]]
             /\ currentTime' = end
             /\ nextArrivalIdx' = adm.nextArrivalIdx
             /\ queues' = [queues EXCEPT ![1] = rrQueue(idx, left, end)]
             /\ IF left > 0
                THEN UNCHANGED << results, done >>
                ELSE /\ results' = Append(results, MkResult(p, end, first))
                     /\ done' = done + 1
  /\ UNCHANGED << aiVars, compare, input, earlier, name, processes, options, pc, completed, sorted, iter,
                  lastPid, segStart, outcome >>

\* Variant: the process that entered the queue last is taken.
queuePop(activeQueue) == queues[activeQueue + 1][Len(queues[activeQueue + 1])]

\* const proc = queues[activeQueue].shift(): the process taken from the queue
queueShift(activeQueue) == Head(queues[activeQueue + 1])

\* Variant: the quantum grows by one per level.
feedbackQuantumLinear(variableQuantum, activeQueue) ==
  IF variableQuantum THEN activeQueue + 1 ELSE 1

\* feedbackGeneric: const quantum = variableQuantum ? Math.pow(2, activeQueue) : 1
feedbackQuantum(variableQuantum, activeQueue) ==
  IF variableQuantum THEN Pow2(activeQueue) ELSE 1

\* The body of feedbackGeneric's loop; feedback passes FALSE, feedbackVariable TRUE.
feedbackGeneric(variableQuantum) ==
  /\ done < Len(procs)
  /\ LET activeQueue == ActiveQueue
     IN IF activeQueue = 0 - 1
        THEN idleUntilAdmitted
        ELSE LET idx == queueShift(activeQueue)
                 p == procs[idx]
                 quantum == feedbackQuantum(variableQuantum, activeQueue)
                 first == IF ~p.started THEN currentTime ELSE p.firstStart
                 execTime == Min(quantum, p.remaining)
                 start == currentTime
                 end == start + execTime
                 left == p.remaining - execTime
                 shifted == [queues EXCEPT ![activeQueue + 1] = Tail(@)]
                 adm == AdmitArrivals(procs, sorted, shifted[1], nextArrivalIdx, end)
                 admitted == [shifted EXCEPT ![1] = adm.queue]
                 nextQueue == Min(activeQueue + 1, NUM_QUEUES - 1)
             IN /\ timeline' = Append(timeline, Segment(p.pid, start, end))
                /\ currentTime' = end
                /\ nextArrivalIdx' = adm.nextArrivalIdx
                /\ IF left > 0
                   THEN /\ procs' = [procs EXCEPT ![idx] =
                                       [p EXCEPT !.started = TRUE, !.firstStart = first,
                                                 !.remaining = left, !.level = nextQueue]]
                        /\ queues' = [admitted EXCEPT ![nextQueue + 1] = Append(@, idx)]
                        /\ UNCHANGED << results, done >>
                   ELSE /\ procs' = [procs EXCEPT ![idx] =
                                       [p EXCEPT !.started = TRUE, !.firstStart = first,
                                                 !.remaining = left]]
                        /\ queues' = admitted
                        /\ results' = Append(results, MkResult(p, end, first))
                        /\ done' = done + 1
  /\ UNCHANGED << aiVars, compare, input, earlier, name, processes, options, pc, completed, sorted, iter,
                  lastPid, segStart, outcome >>

feedback ==
  /\ pc = "loop" /\ name = "feedback"
  /\ feedbackGeneric(FALSE)

feedbackVariable ==
  /\ pc = "loop" /\ name = "fbv"
  /\ feedbackGeneric(TRUE)

\* Variant: the slice is the level's quantum even when less work remains.
mlfqExecTimeWholeQuantum(activeLevel, remaining) ==
  IF LEVELS[activeLevel + 1].infinite
  THEN remaining
  ELSE LEVELS[activeLevel + 1].quantum

\* Math.min(LEVELS[activeLevel].quantum, proc.remaining); Infinity at the last level
mlfqExecTime(activeLevel, remaining) ==
  IF LEVELS[activeLevel + 1].infinite
  THEN remaining
  ELSE Min(LEVELS[activeLevel + 1].quantum, remaining)

\* Variant: a process that has used up its slice drops to the lowest level.
mlfqNextLevelLowest(activeLevel) == Len(LEVELS) - 1

\* Math.min(activeLevel + 1, LEVELS.length - 1)
mlfqNextLevel(activeLevel) == Min(activeLevel + 1, Len(LEVELS) - 1)

mlfq ==
  /\ pc = "loop" /\ name = "mlfq"
  /\ done < Len(procs)
  /\ LET activeLevel == ActiveQueue
     IN IF activeLevel = 0 - 1
        THEN idleUntilAdmitted
        ELSE LET idx == queueShift(activeLevel)
                 p == procs[idx]
                 first == IF ~p.started THEN currentTime ELSE p.firstStart
                 execTime == mlfqExecTime(activeLevel, p.remaining)
                 start == currentTime
                 end == start + execTime
                 left == p.remaining - execTime
                 shifted == [queues EXCEPT ![activeLevel + 1] = Tail(@)]
                 adm == AdmitArrivals(procs, sorted, shifted[1], nextArrivalIdx, end)
                 admitted == [shifted EXCEPT ![1] = adm.queue]
                 nextLevel == mlfqNextLevel(activeLevel)
             IN /\ timeline' = Append(timeline, Segment(p.pid, start, end))
                /\ currentTime' = end
                /\ nextArrivalIdx' = adm.nextArrivalIdx
                /\ IF left > 0
                   THEN /\ procs' = [procs EXCEPT ![idx] =
                                       [p EXCEPT !.started = TRUE, !.firstStart = first,
                                                 !.remaining = left, !.level = nextLevel]]
                        /\ queues' = [admitted EXCEPT ![nextLevel + 1] = Append(@, idx)]
                        /\ UNCHANGED << results, done >>
                   ELSE /\ procs' = [procs EXCEPT ![idx] =
                                       [p EXCEPT !.started = TRUE, !.firstStart = first,
                                                 !.remaining = left]]
                        /\ queues' = admitted
                        /\ results' = Append(results, MkResult(p, end, first))
                        /\ done' = done + 1
  /\ UNCHANGED << aiVars, compare, input, earlier, name, processes, options, pc, completed, sorted, iter,
                  lastPid, segStart, outcome >>

\* ------------------------------------------------------------------------
\* After the loop: the simulator returns and runAlgorithm tags the outcome
\* ------------------------------------------------------------------------
\* Variant: the loop stops one process short.
LoopExitedOneShort ==
  CASE name = "fcfs" -> ~(iter + 1 < Len(sorted))
    [] name = "srt" -> ~(done + 1 < Len(procs) /\ currentTime < MaxTimeOf(procs))
    [] OTHER -> ~(done + 1 < Len(procs))

\* The main loop's condition is false.
LoopExited ==
  CASE name = "fcfs" -> ~(iter < Len(sorted))
    [] name = "srt" -> ~(done < Len(procs) /\ currentTime < MaxTimeOf(procs))
    [] OTHER -> ~(done < Len(procs))

\* srt flushes an open segment: if (lastPid !== null) timeline.push(...)
FinalTimeline ==
  IF name = "srt" /\ lastPid # NULL
  THEN Append(timeline, Segment(lastPid, segStart, currentTime))
  ELSE timeline

\* results.sort((a, b) => a.pid - b.pid) in every simulator but fcfs, which
\* returns its results as pushed.
FinalResults ==
  IF name = "fcfs" THEN results ELSE StableSort(results, [ ij \in Pairs(results) |-> ByPid(results[ij[1]], results[ij[2]]) ])

Return ==
  /\ pc = "loop"
  /\ LoopExited
  /\ timeline' = FinalTimeline
  /\ results' = FinalResults
  /\ outcome' = [ kind |-> "ok",
                  timeline |-> FinalTimeline,
                  results |-> FinalResults,
                  averages |-> computeAverages(FinalResults),
                  shortName |-> ALGORITHMS[name].shortName ]
  /\ pc' = "done"
  /\ UNCHANGED << aiVars, compare, input, earlier, name, processes, options, procs, completed, sorted, queues,
                  nextArrivalIdx, iter, currentTime, done, lastPid, segStart >>

\* The caller: one call of runAlgorithm with arguments of its choice.
Call ==
  /\ pc = "call" /\ compare.status = "idle"
  /\ \E key \in Keys : \E ps \in ProcessListsFor(key) : \E opts \in OptionsFor(key) :
       RunAlgorithm(key, ps, opts)
  /\ UNCHANGED << aiVars, compare, earlier >>

\* The caller repeats its call: the same key and options, and its list as the
\* first call left it.  The first outcome is kept for comparison.
runAgain ==
  /\ pc = "done" /\ compare.status = "idle"
  /\ earlier = Pending
  /\ Len(processes) <= MaxRerunProcs
  /\ earlier' = outcome
  /\ RunAlgorithm(name, input, options)
  /\ UNCHANGED << aiVars, compare >>

\* ------------------------------------------------------------------------
\* handleCompare: every entry of the registry is run on the shell's list
\* ------------------------------------------------------------------------
\* The lists the shell holds: built by handleAdd, so bursts are positive.
CompareLists == ProcessListsUpTo(MaxCompareProcs, 1..MaxBurst, 0..MaxPriority)

\* Variant: every policy is given the quantum.
compareOptionsAlways(key) == [hasQuantum |-> TRUE, quantum |-> CompareQuantum]

\* const options = {}; if (algo.needsQuantum) options.quantum = 2;
compareOptions(key) ==
  IF ALGORITHMS[key].needsQuantum
  THEN [hasQuantum |-> TRUE, quantum |-> CompareQuantum]
  ELSE NoOptions

\* The handler's entry, with the shell's list ps: an empty list is refused
\* with a message; otherwise allResults = {} and the loop over the registry
\* begins.  compare.processes keeps the list as it is at this moment.
handleCompare(ps) ==
  /\ compare' = IF Len(ps) = 0
                THEN [CompareIdle EXCEPT !.status = "refused"]
                ELSE [CompareIdle EXCEPT !.status = "running", !.processes = ps]
  /\ input' = ps
  /\ UNCHANGED << name, processes, options, pc, procs, completed, sorted, queues,
                  nextArrivalIdx, iter, timeline, results, currentTime, done,
                  lastPid, segStart, outcome, earlier, aiVars >>

\* for (const [key, algo] of Object.entries(ALGORITHMS)):
\*   result = runAlgorithm(key, processes, options)
\* Every call is given the shell's one array, as the calls before left it.
compareRun ==
  /\ compare.status = "running" /\ pc = "call"
  /\ LET key == AlgorithmKeys[compare.idx + 1]
     IN RunAlgorithm(key, input, compareOptions(key))
  /\ UNCHANGED << aiVars, compare, earlier >>

\* if (!result.error) allResults[key] = result; and on to the next entry.  The
\* run's own variables end with the call.
compareCollect ==
  /\ compare.status = "running" /\ pc = "done"
  /\ compare' =
       [ compare EXCEPT
           !.idx = @ + 1,
           !.allResults = IF outcome.kind # "error" THEN (name :> outcome) @@ @ ELSE @,
           !.calls = Append(@, [ key |-> name, processes |-> processes,
                                 options |-> options, outcome |-> outcome ]),
           !.status = IF compare.idx + 1 = Len(AlgorithmKeys) THEN "done" ELSE "running" ]
  /\ name' = "" /\ processes' = << >> /\ options' = NoOptions
  /\ UNCHANGED << aiVars, input, earlier >>
  /\ pc' = "call"
  /\ procs' = << >> /\ completed' = << >> /\ sorted' = << >> /\ queues' = << >>
  /\ nextArrivalIdx' = 0 /\ iter' = 0
  /\ timeline' = << >> /\ results' = << >>
  /\ currentTime' = 0 /\ done' = 0 /\ lastPid' = NULL /\ segStart' = 0
  /\ outcome' = Pending

Compare ==
  \/ /\ pc = "call" /\ compare.status = "idle"
     /\ \E ps \in CompareLists : handleCompare(ps)
  \/ compareRun
  \/ compareCollect

\* One step of the run in progress: an iteration of the simulator's loop, or
\* the return once the loop has ended.
Simulate ==
  \/ fcfs
  \/ sjf
  \/ priority
  \/ hrrn
  \/ srt
  \/ roundRobin
  \/ feedback
  \/ feedbackVariable
  \/ mlfq
  \/ Return

Next ==
  \/ Call
  \/ runAgain
  \/ Simulate
  \/ Compare

Spec == Init /\ [][Next]_vars

\* A run is one uninterrupted synchronous computation: once called, the
\* simulator takes every step it can take.
FairSpec == Spec /\ WF_vars(Simulate)


\* ------------------------------------------------------------------------
\* aiService: the rate limiter and the public AI functions
\* ------------------------------------------------------------------------
\* const lastReq = requests[requests.length - 1] || 0;
\* the cooldown is over unless dateNow - lastReq < cooldownMs
cooldownOver(rl, t) ==
  LET lastReq == IF Len(rl.requests) = 0 THEN 0 ELSE rl.requests[Len(rl.requests)]
  IN ~(t - lastReq < cooldownMs)

\* if (RATE_LIMIT.requests.length >= RATE_LIMIT.maxRequests)
limitReached(requests) == Len(requests) >= maxRequests

\* checkRateLimit() at time t on the limiter rl: its answer and the limiter it
\* leaves.
checkRateLimit(rl, t) ==
  IF rl.coolingDown /\ ~cooldownOver(rl, t)
  THEN [allowed |-> FALSE, msg |-> "wait", rl |-> rl]
  ELSE LET base == IF rl.coolingDown THEN << >> ELSE rl.requests
           kept == SelectSeq(base, LAMBDA x : t - x < windowMs)
       IN IF limitReached(kept)
          THEN [allowed |-> FALSE, msg |-> "reached",
                rl |-> [requests |-> kept, coolingDown |-> TRUE]]
          ELSE [allowed |-> TRUE, msg |-> "",
                rl |-> [requests |-> Append(kept, t), coolingDown |-> FALSE]]

\* No call of checkRateLimit: the limiter stays as it is.
NoCheck(rl) == [allowed |-> TRUE, msg |-> "none", rl |-> rl]

\* callOpenAI up to its await: without a key it returns at once; otherwise it
\* asks the limiter and, if allowed, sends the request.
callOpenAI(rl, t) ==
  IF ~apiKey
  THEN [out |-> "not configured", check |-> NoCheck(rl)]
  ELSE LET c == checkRateLimit(rl, t)
       IN [out |-> IF c.allowed THEN "sent" ELSE "denied", check |-> c]

\* getAlgorithmRecommendation, analyzeResults, chatWithAI:
\*   const rateCheck = checkRateLimit(); if (!rateCheck.allowed) return rateCheck.msg;
\*   return callOpenAI(...)
checkedFirst(rl, t) ==
  LET c == checkRateLimit(rl, t)
  IN IF ~c.allowed
     THEN [out |-> "denied", first |-> c, second |-> NoCheck(c.rl)]
     ELSE [out |-> callOpenAI(c.rl, t).out, first |-> c, second |-> callOpenAI(c.rl, t).check]

\* getCommandSuggestion, askSchedulingQuestion: callOpenAI alone
uncheckedFirst(rl, t) ==
  [out |-> callOpenAI(rl, t).out, first |-> NoCheck(rl), second |-> callOpenAI(rl, t).check]

\* The history after one answer c of checkRateLimit at time t.
Noted(h, c, t) ==
  IF c.msg = "none" THEN h
  ELSE LET late == IF h.hit.at # NoTime /\ h.hit.late = "" /\ t - h.hit.at >= cooldownMs
                   THEN (IF ~c.allowed THEN "denied"
                         ELSE IF Len(c.rl.requests) = 1 THEN "allowed"
                         ELSE "allowed, history kept")
                   ELSE h.hit.late
           seen == [h.hit EXCEPT !.late = late]
       IN IF c.msg = "reached"
          THEN [recent |-> h.recent, hit |-> [at |-> t, next |-> NoTime, late |-> ""]]
          ELSE IF c.allowed
          THEN [recent |-> Append(h.recent, t),
                hit |-> IF seen.at # NoTime /\ seen.next = NoTime
                        THEN [seen EXCEPT !.next = t] ELSE seen]
          ELSE [recent |-> h.recent, hit |-> seen]

\* A public function has run up to its return or its await, with the outcome r.
Answered(r) ==
  LET h == Noted(Noted([recent |-> recent, hit |-> hit], r.first, dateNow), r.second, dateNow)
  IN /\ RATE_LIMIT' = r.second.rl
     /\ pending' = IF r.out = "sent" THEN pending + 1 ELSE pending
     /\ recent' = h.recent
     /\ hit' = h.hit
     /\ UNCHANGED << apiKey, dateNow, runVars >>

\* validateInput found the text unsafe: the function returns the reason.
Refused ==
  UNCHANGED << RATE_LIMIT, apiKey, dateNow, pending, recent, hit, runVars >>

getCommandSuggestion ==
  /\ pending < MaxPending
  /\ Answered(uncheckedFirst(RATE_LIMIT, dateNow))

askSchedulingQuestion ==
  /\ pending < MaxPending
  /\ \E safe \in BOOLEAN :
       IF safe THEN Answered(uncheckedFirst(RATE_LIMIT, dateNow))
       ELSE Refused

getAlgorithmRecommendation ==
  /\ pending < MaxPending
  /\ Answered(checkedFirst(RATE_LIMIT, dateNow))

analyzeResults ==
  /\ pending < MaxPending
  /\ Answered(checkedFirst(RATE_LIMIT, dateNow))

chatWithAI ==
  /\ pending < MaxPending
  /\ \E safe \in BOOLEAN :
       IF safe THEN Answered(checkedFirst(RATE_LIMIT, dateNow))
       ELSE Refused

\* The API answers a request: status 429 sets coolingDown, any other answer
\* leaves the limiter alone.
fetchAnswered ==
  /\ pending > 0
  /\ pending' = pending - 1
  /\ \E status \in {"ok", "429", "error"} :
       RATE_LIMIT' = IF status = "429" THEN [RATE_LIMIT EXCEPT !.coolingDown = TRUE]
                     ELSE RATE_LIMIT
  /\ UNCHANGED << apiKey, dateNow, recent, hit, runVars >>

\* Time passes.  The history forgets the calls that have left the window.
Tick ==
  /\ dateNow < StartTime + MaxTicks * TickMs
  /\ dateNow' = dateNow + TickMs
  /\ recent' = SelectSeq(recent, LAMBDA x : dateNow' - x < windowMs)
  /\ UNCHANGED << RATE_LIMIT, apiKey, pending, hit, runVars >>

AiInit ==
  /\ shellIdle
  /\ aiLoaded
  /\ apiKey \in BOOLEAN

AiNext ==
  \/ getCommandSuggestion
  \/ askSchedulingQuestion
  \/ getAlgorithmRecommendation
  \/ analyzeResults
  \/ chatWithAI
  \/ fetchAnswered
  \/ Tick

AiSpec == AiInit /\ [][AiNext]_vars

\* ------------------------------------------------------------------------
\* The caller repeats a call with its list rearranged
\* ------------------------------------------------------------------------
\* The lists that hold the elements of ps in another order.
Rearranged(ps) ==
  { [ i \in 1..Len(ps) |-> ps[f[i]] ] :
      f \in { g \in [1..Len(ps) -> 1..Len(ps)] :
                \A i, j \in 1..Len(ps) : i # j => g[i] # g[j] } } \ {ps}

\* The caller calls again with the same key and options and its list in
\* another order.  The first outcome is kept for comparison.
callRearranged ==
  /\ pc = "done" /\ compare.status = "idle"
  /\ earlier = Pending
  /\ Len(input) <= MaxPermProcs
  /\ \E ps \in Rearranged(input) :
       /\ earlier' = outcome
       /\ RunAlgorithm(name, ps, options)
  /\ UNCHANGED << aiVars, compare >>

PermNext ==
  \/ Call
  \/ Simulate
  \/ callRearranged

PermSpec == Init /\ [][PermNext]_vars

\* ========================================================================
\* Properties
\* ========================================================================
\* Every process has a burst of at least 1 (pids are pairwise distinct and
\* arrivals >= 0 in every list the caller passes).
PositiveBursts == \A i \in 1..Len(processes) : processes[i].burst >= 1

\* A valid call: a simulator's key, a non-empty list of processes with
\* positive bursts, and for rr a positive integer quantum.
ValidInput ==
  /\ name \in Simulators
  /\ Len(processes) >= 1
  /\ PositiveBursts
  /\ name = "rr" => (options.hasQuantum /\ options.quantum >= 1)

\* runAlgorithm has returned a simulator's outcome.
Returned == pc = "done" /\ outcome.kind = "ok"

InputPids == { processes[i].pid : i \in 1..Len(processes) }

\* The input process with pid p.
InputOf(p) == processes[CHOOSE i \in 1..Len(processes) : processes[i].pid = p]

\* The positions of the timeline tl that pid p occupies.
SegmentsOf(tl, p) == { i \in 1..Len(tl) : tl[i].pid = p }

MaxOf(S) == CHOOSE x \in S : \A y \in S : y <= x

\* The total length of the non-idle segments of tl.
BusyTime(tl) ==
  SumSeq([ i \in 1..Len(tl) |-> IF tl[i].pid = IDLE THEN 0 ELSE tl[i].end - tl[i].start ])

TotalBurst == SumSeq([ i \in 1..Len(processes) |-> processes[i].burst ])

\* sum of bursts + maximum arrival + 1
SafetyBound == TotalBurst + MaxOf({ processes[i].arrival : i \in 1..Len(processes) }) + 1

\* C1: for every simulator and every valid input, the returned results are
\* sorted by strictly ascending pid.
C1_ResultsSortedByPid ==
  (Returned /\ ValidInput) =>
    \A i \in 1..(Len(outcome.results) - 1) :
      outcome.results[i].pid < outcome.results[i + 1].pid

\* C2: runAlgorithm with key rr and a quantum that is absent, zero or negative
\* returns an error value, not a simulated outcome.
C2_RrRejectsBadQuantum ==
  (/\ pc = "done"
   /\ name = "rr"
   /\ Len(processes) >= 1
   /\ ~(options.hasQuantum /\ options.quantum >= 1)) => outcome.kind = "error"

\* C3: for every simulator and every valid input, the results hold exactly one
\* Result per input process: as many results as processes, the same set of
\* pids, and no pid twice.
C3_OneResultPerProcess ==
  (Returned /\ ValidInput) =>
    /\ Len(outcome.results) = Len(processes)
    /\ { outcome.results[i].pid : i \in 1..Len(outcome.results) } = InputPids
    /\ \A i, j \in 1..Len(outcome.results) :
         i # j => outcome.results[i].pid # outcome.results[j].pid

\* Three processes, returned in an order that is not the order of completion.
C3_Witness ==
  /\ Returned /\ ValidInput
  /\ Len(processes) = 3
  /\ \E i, j \in 1..Len(outcome.results) :
       i < j /\ outcome.results[i].completion > outcome.results[j].completion

\* C4: conservation: for every simulator and every valid input, the non-idle
\* segments of the returned timeline add up to the sum of the bursts.
C4_Conservation ==
  (Returned /\ ValidInput) => BusyTime(outcome.timeline) = TotalBurst

\* A returned timeline with an idle segment and a process split over several
\* segments.
C4_Witness ==
  /\ Returned /\ ValidInput
  /\ SegmentsOf(outcome.timeline, IDLE) # {}
  /\ \E p \in InputPids : Cardinality(SegmentsOf(outcome.timeline, p)) >= 3

\* C5: gapless timeline: for every simulator and every valid input, at every
\* moment of the run the timeline so far starts at 0 and each segment starts
\* where the one before it ends; so does the returned timeline.
Gapless(tl) ==
  /\ Len(tl) >= 1 => tl[1].start = 0
  /\ \A i \in 1..(Len(tl) - 1) : tl[i].end = tl[i + 1].start

C5_GaplessTimeline ==
  ValidInput =>
    /\ Gapless(timeline)
    /\ Returned => Gapless(outcome.timeline)

\* An srt timeline with an idle segment, followed by a process that is
\* preempted and resumed.
C5_Witness ==
  /\ Returned /\ ValidInput /\ name = "srt"
  /\ \E i \in 1..(Len(outcome.timeline) - 1) : outcome.timeline[i].pid = IDLE
  /\ \E p \in InputPids : Cardinality(SegmentsOf(outcome.timeline, p)) >= 2

\* C6: for every simulator and every valid input, every segment emitted,
\* idle or occupied, has start < end.
C6_NoEmptySegment ==
  ValidInput =>
    /\ \A i \in 1..Len(timeline) : timeline[i].start < timeline[i].end
    /\ Returned =>
         \A i \in 1..Len(outcome.timeline) :
           outcome.timeline[i].start < outcome.timeline[i].end

\* A returned timeline that opens with an idle segment and has a segment of
\* one unit.
C6_Witness ==
  /\ Returned /\ ValidInput
  /\ outcome.timeline[1].pid = IDLE
  /\ \E i \in 1..Len(outcome.timeline) :
       /\ outcome.timeline[i].pid # IDLE
       /\ outcome.timeline[i].end = outcome.timeline[i].start + 1

\* C7: for every simulator and every valid input, each Result agrees with the
\* timeline and the input: completion is the end of the last segment of its
\* pid, response is the start of the first segment of its pid minus arrival,
\* turnaround = completion - arrival and waiting = turnaround - burst.
ResultAgrees(r, tl) ==
  LET segs == SegmentsOf(tl, r.pid)
      p == InputOf(r.pid)
  IN /\ segs # {}
     /\ r.arrival = p.arrival
     /\ r.burst = p.burst
     /\ r.completion = tl[MaxOf(segs)].end
     /\ r.response = tl[MinOf(segs)].start - p.arrival
     /\ r.turnaround = r.completion - p.arrival
     /\ r.waiting = r.turnaround - p.burst

C7_ResultsAgreeWithTimeline ==
  (Returned /\ ValidInput) =>
    \A i \in 1..Len(outcome.results) :
      /\ outcome.results[i].pid \in InputPids
      /\ ResultAgrees(outcome.results[i], outcome.timeline)

\* A process that waited before its first dispatch, was preempted and resumed
\* later: its response is positive and smaller than its waiting time.
C7_Witness ==
  /\ Returned /\ ValidInput
  /\ \E i \in 1..Len(outcome.results) :
       /\ Cardinality(SegmentsOf(outcome.timeline, outcome.results[i].pid)) >= 2
       /\ outcome.results[i].response > 0
       /\ outcome.results[i].response < outcome.results[i].waiting

\* C8: non-negativity: for every simulator and every valid input, every Result
\* has waiting >= 0 and response >= 0.
C8_NonNegative ==
  (Returned /\ ValidInput) =>
    \A i \in 1..Len(outcome.results) :
      outcome.results[i].waiting >= 0 /\ outcome.results[i].response >= 0

\* One process that never waited and one that did.
C8_Witness ==
  /\ Returned /\ ValidInput
  /\ \E i, j \in 1..Len(outcome.results) :
       /\ outcome.results[i].waiting = 0 /\ outcome.results[i].response = 0
       /\ outcome.results[j].waiting > 0 /\ outcome.results[j].response > 0

\* C9: termination: for every simulator and every valid input, a run that has
\* entered the simulator's loop eventually returns the outcome, with a Result
\* for every process.
C9_Terminates ==
  (pc = "loop" /\ ValidInput) ~>
    (IF Returned /\ ValidInput THEN Len(outcome.results) = Len(processes) ELSE FALSE)

\* A round robin run of three processes with quantum 1 that has returned.
C9_Witness ==
  /\ Returned /\ ValidInput
  /\ name = "rr" /\ options.quantum = 1
  /\ Len(processes) = 3
  /\ Len(outcome.timeline) > Len(processes)

CompletionOf(p) ==
  outcome.results[CHOOSE i \in 1..Len(outcome.results) : outcome.results[i].pid = p].completion

\* The input processes that have work left at clock s.
UnfinishedAt(s) == { i \in 1..Len(processes) : CompletionOf(processes[i].pid) > s }

\* C11: idle handling: for every simulator and every valid input, an idle
\* segment [s, e) of the returned timeline starts when no process that has
\* arrived by s has work left while some process is still to arrive, ends at
\* the smallest arrival time among the unfinished processes, and is not
\* followed by another idle segment; and a segment that is not idle belongs to
\* a process that has arrived, so the CPU is idle only in those cases.
C11_IdleHandling ==
  (Returned /\ ValidInput) =>
    \A i \in 1..Len(outcome.timeline) :
      LET seg == outcome.timeline[i]
      IN IF seg.pid = IDLE
         THEN /\ UnfinishedAt(seg.start) # {}
              /\ \A k \in UnfinishedAt(seg.start) : processes[k].arrival > seg.start
              /\ seg.end = MinOf({ processes[k].arrival : k \in UnfinishedAt(seg.start) })
              /\ i < Len(outcome.timeline) => outcome.timeline[i + 1].pid # IDLE
         ELSE /\ seg.pid \in InputPids
              /\ InputOf(seg.pid).arrival <= seg.start
              /\ CompletionOf(seg.pid) > seg.start

\* A queue-based run in which the CPU is idle for two units in one segment
\* until the first process arrives.
C11_Witness ==
  /\ Returned /\ ValidInput
  /\ name \in {"rr", "feedback", "fbv", "mlfq"}
  /\ \E i \in 1..Len(outcome.timeline) :
       /\ outcome.timeline[i].pid = IDLE
       /\ outcome.timeline[i].end = outcome.timeline[i].start + 2

\* C12: mlfq monotonic demotion: during an mlfq run every process starts at
\* level 0, and each step leaves a process's level unchanged or raises it by
\* exactly one, never above level 2; a waiting process sits in the queue of
\* its level.
C12_MonotonicDemotion ==
  [][ /\ (pc = "call" /\ pc' = "loop" /\ name' = "mlfq") =>
           \A i \in 1..Len(procs') : procs'[i].level = 0
      /\ (pc = "loop" /\ name = "mlfq") =>
           /\ Len(procs') = Len(procs)
           /\ \A i \in 1..Len(procs) :
                /\ procs'[i].level \in {procs[i].level, procs[i].level + 1}
                /\ procs'[i].level <= 2
           /\ \A q \in 1..Len(queues') : \A k \in 1..Len(queues'[q]) :
                procs'[queues'[q][k]].level = q - 1 ]_vars

\* An mlfq run with one process demoted to level 2, one at level 1 and one
\* still at level 0.
C12_Witness ==
  /\ pc = "loop" /\ name = "mlfq"
  /\ \E i, j, k \in 1..Len(procs) :
       procs[i].level = 2 /\ procs[j].level = 1 /\ procs[k].level = 0

DistinctArrivals ==
  \A i, j \in 1..Len(processes) : i # j => processes[i].arrival # processes[j].arrival

\* hrrn is about to choose among the processes that have arrived.
HrrnDecision ==
  /\ pc = "loop" /\ name = "hrrn"
  /\ done < Len(procs)
  /\ Len(Arrived) > 0

\* C13: hrrn starvation-freedom: for every valid input with pairwise distinct
\* arrivals, the response ratio (now - arrival + burst) / burst of the process
\* hrrn chooses is at least 1 at every decision, and every process is
\* eventually chosen and completed, no later than the safety bound.
C13_HrrnStarvationFree ==
  /\ []((HrrnDecision /\ ValidInput /\ DistinctArrivals) =>
          responseRatio(hrrnChosen).num >= responseRatio(hrrnChosen).den)
  /\ (pc = "loop" /\ name = "hrrn" /\ ValidInput /\ DistinctArrivals) ~>
       (IF Returned /\ name = "hrrn"
        THEN /\ \A i \in 1..Len(procs) : completed[i]
             /\ \A p \in InputPids : CompletionOf(p) <= SafetyBound
        ELSE FALSE)

\* Three processes with distinct arrivals, the last of which was chosen with a
\* response ratio above 1 after waiting behind the other two.
C13_Witness ==
  /\ Returned /\ ValidInput /\ DistinctArrivals
  /\ name = "hrrn"
  /\ Len(processes) = 3
  /\ \E i \in 1..Len(outcome.results) :
       outcome.results[i].arrival = MaxArrival /\ outcome.results[i].waiting >= 2

\* C14: runAlgorithm returns the unknown-algorithm error for every key that is
\* not one of the registry's own entries, and in that case runs no simulator
\* and returns no timeline or results.
C14_UnknownKeyRejected ==
  (pc = "done" /\ name \notin DOMAIN ALGORITHMS) =>
    /\ outcome = [kind |-> "error", error |-> "Unknown algorithm"]
    /\ timeline = << >> /\ results = << >>

\* C15: runAlgorithm with a key of the registry and an empty process list
\* returns the no-processes error and does not run the simulator: no working
\* copies, no timeline, no results, the clock untouched.
C15_EmptyInputRejected ==
  (pc = "done" /\ name \in DOMAIN ALGORITHMS /\ Len(processes) = 0) =>
    /\ outcome = [kind |-> "error", error |-> "No processes to schedule"]
    /\ procs = << >> /\ timeline = << >> /\ results = << >>
    /\ currentTime = 0 /\ done = 0

\* mlfq called with the empty list has returned.
C15_Witness ==
  /\ pc = "done"
  /\ name = "mlfq"
  /\ Len(processes) = 0
  /\ outcome.kind = "error"

\* srt's loop has ended at the time bound with a process still unfinished.
SrtStoppedAtBound ==
  /\ pc = "done" /\ name = "srt"
  /\ Len(processes) >= 1
  /\ done < Len(procs)
  /\ currentTime >= MaxTimeOf(procs)

\* C16: a run that stops at its time bound with a process still unfinished
\* returns an error value, not an outcome with results missing.
C16_FaultReported ==
  SrtStoppedAtBound => outcome.kind = "error"

\* The calls handleCompare has made and collected so far are the first entries
\* of the registry, in order, each on the shell's list and with quantum 2
\* exactly where the entry needs a quantum.
CompareCallsSoFar ==
  /\ Len(compare.calls) = compare.idx
  /\ \A i \in 1..Len(compare.calls) :
       LET c == compare.calls[i]
       IN /\ c.key = AlgorithmKeys[i]
          /\ c.processes = compare.processes
          /\ c.options.hasQuantum = ALGORITHMS[c.key].needsQuantum
          /\ c.options.hasQuantum => c.options.quantum = 2

\* The map holds exactly the keys whose call returned no error, each with the
\* outcome of its call.
CompareMapSoFar ==
  /\ DOMAIN compare.allResults =
       { compare.calls[i].key : i \in { j \in 1..Len(compare.calls) :
                                          compare.calls[j].outcome.kind # "error" } }
  /\ \A i \in 1..Len(compare.calls) :
       compare.calls[i].outcome.kind # "error" =>
         compare.allResults[compare.calls[i].key] = compare.calls[i].outcome

\* C17: handleCompare calls runAlgorithm once for every key of the registry,
\* in order, with the same process list and with quantum 2 exactly for the
\* policies that need a quantum; the map holds key k if and only if the call
\* for k returned no error; and whatever a call returned, the next entry is
\* run, so the comparison ends only after all ten.
C17_CompareRunsAll ==
  compare.status \in {"running", "done"} =>
    /\ CompareCallsSoFar
    /\ CompareMapSoFar
    /\ compare.status = "done" <=> compare.idx = Len(AlgorithmKeys)
    /\ compare.status = "done" => { compare.calls[i].key : i \in 1..Len(compare.calls) } = DOMAIN ALGORITHMS

\* A finished comparison in which one policy's run failed: it is missing from
\* the map of nine, and the policy after it was still run and is in the map.
C17_Witness ==
  /\ compare.status = "done"
  /\ Len(compare.processes) = 2
  /\ \E i \in 1..(Len(compare.calls) - 1) :
       /\ compare.calls[i].outcome.kind = "error"
       /\ compare.calls[i].key \notin DOMAIN compare.allResults
       /\ compare.calls[i + 1].key \in DOMAIN compare.allResults
  /\ Cardinality(DOMAIN compare.allResults) = 9

ProcessFields == {"pid", "arrival", "burst", "priority"}

IsMean(q, sum, n) == q.den # 0 /\ q.num * n = sum * q.den

ResultOf(p) ==
  outcome.results[CHOOSE i \in 1..Len(outcome.results) : outcome.results[i].pid = p]

\* The metrics of a result, in the order completion, turnaround, waiting, response.
Metrics(r) == << r.completion, r.turnaround, r.waiting, r.response >>

\* fcfs has returned for the three reference processes, in either order of entry.
FcfsReferenceRun ==
  /\ Returned /\ name = "fcfs"
  /\ processes \in ReferenceLists

\* C21: fcfs reference example: for the processes (pid, arrival, burst) =
\* (1,0,5), (2,1,3), (3,2,4) fcfs returns one result per pid with completions
\* 5, 8, 12, turnarounds 5, 7, 10, waitings 0, 4, 6 and responses 0, 4, 6 for
\* pids 1, 2, 3.
C21_FcfsReference ==
  FcfsReferenceRun =>
    /\ { outcome.results[i].pid : i \in 1..Len(outcome.results) } = {1, 2, 3}
    /\ Len(outcome.results) = 3
    /\ Metrics(ResultOf(1)) = << 5, 5, 0, 0 >>
    /\ Metrics(ResultOf(2)) = << 8, 7, 4, 4 >>
    /\ Metrics(ResultOf(3)) = << 12, 10, 6, 6 >>

\* The reference processes, entered with pid 3 first, have been run.
C21_Witness ==
  /\ FcfsReferenceRun
  /\ processes[1].pid = 3
  /\ Len(outcome.timeline) = 3

\* A step of round robin that runs the head of the ready queue.
RrDispatch ==
  /\ pc = "loop" /\ name = "rr" /\ ValidInput
  /\ done < Len(procs)
  /\ Len(queues[1]) > 0

\* C22: round robin re-queue ordering: when the slice of the queue's head ends
\* at time t, the queue is what it was behind the head, then every process
\* with arrival <= t that had not arrived before the slice (arrival = t
\* included) in ascending (arrival, pid) order, and last the process that just
\* ran, if and only if it has work left.
C22_RrRequeueOrder ==
  [][ RrDispatch =>
        LET q == queues[1]
            head == Head(q)
            after == queues'[1]
            t == currentTime'
            new == { i \in 1..Len(procs) :
                       procs[i].arrival > currentTime /\ procs[i].arrival <= t }
            k == Len(q) - 1
            m == Cardinality(new)
        IN /\ Len(after) = k + m + (IF procs'[head].remaining > 0 THEN 1 ELSE 0)
           /\ \A j \in 1..k : after[j] = q[j + 1]
           /\ { after[j] : j \in (k + 1)..(k + m) } = new
           /\ \A a, b \in (k + 1)..(k + m) :
                a < b => ByArrivalThenPid(procs[after[a]], procs[after[b]])
           /\ procs'[head].remaining > 0 => after[k + m + 1] = head ]_vars

\* The queue after a slice that ended at time t: a process that arrived at t
\* exactly and has not run yet stands right before the one that has just run
\* and has work left.
C22_Witness ==
  /\ pc = "loop" /\ name = "rr" /\ ValidInput
  /\ Len(queues[1]) >= 2
  /\ LET n == Len(queues[1])
         last == procs[queues[1][n]]
         before == procs[queues[1][n - 1]]
     IN /\ last.started /\ last.remaining > 0 /\ last.remaining < last.burst
        /\ ~before.started /\ before.arrival = currentTime
        /\ timeline[Len(timeline)].pid = last.pid

\* C23: under rr with quantum q >= 1 every dispatch runs the head of the ready
\* queue for exactly min(q, remaining) units; so in the returned timeline every
\* segment that is not idle has a length of 1..q, and one shorter than q ends
\* with the completion of its process.
C23_RrSlice ==
  /\ [][ RrDispatch =>
          LET p == procs[Head(queues[1])]
              q == options.quantum
              seg == timeline'[Len(timeline')]
          IN /\ Len(timeline') = Len(timeline) + 1
             /\ seg.pid = p.pid
             /\ seg.start = currentTime
             /\ seg.end - seg.start = (IF p.remaining < q THEN p.remaining ELSE q)
             /\ procs'[Head(queues[1])].remaining = p.remaining - (seg.end - seg.start) ]_vars
  /\ [](IF Returned /\ ValidInput /\ name = "rr"
        THEN \A i \in 1..Len(outcome.timeline) :
               LET seg == outcome.timeline[i]
               IN seg.pid # IDLE =>
                    /\ seg.end - seg.start >= 1
                    /\ seg.end - seg.start <= options.quantum
                    /\ seg.end - seg.start < options.quantum => CompletionOf(seg.pid) = seg.end
        ELSE TRUE)

\* A returned rr run with quantum 2 in which one process used a whole slice
\* and another completed within a slice of one unit.
C23_Witness ==
  /\ Returned /\ ValidInput /\ name = "rr"
  /\ options.quantum = 2
  /\ \E i, j \in 1..Len(outcome.timeline) :
       LET a == outcome.timeline[i]
           b == outcome.timeline[j]
       IN /\ a.pid # IDLE /\ a.end - a.start = 2
          /\ b.pid # IDLE /\ b.end - b.start = 1 /\ InputOf(b.pid).burst = 1

\* The units of time before t that pid p occupies in the timeline tl.
RanBefore(tl, p, t) ==
  SumSeq([ i \in 1..Len(tl) |->
             IF tl[i].pid = p /\ tl[i].start < t
             THEN (IF tl[i].end < t THEN tl[i].end ELSE t) - tl[i].start
             ELSE 0 ])

\* The time pid p has left at t, by the returned timeline.
RemainingAt(p, t) == InputOf(p).burst - RanBefore(outcome.timeline, p, t)

\* (remaining at t, arrival, pid) of p is not above that of q.
SrtKeyLeq(p, q, t) ==
  LET rp == RemainingAt(p, t)
      rq == RemainingAt(q, t)
      ap == InputOf(p).arrival
      aq == InputOf(q).arrival
  IN \/ rp < rq
     \/ rp = rq /\ ap < aq
     \/ rp = rq /\ ap = aq /\ p <= q

\* C24: under srt, for every integer time t covered by a segment that is not
\* idle, the occupant of [t, t+1) is the process with the least
\* (remaining at t, arrival, pid) among those with arrival <= t and
\* remaining > 0: the choice is made anew at every unit of time.
C24_SrtShortestRemaining ==
  (Returned /\ name = "srt") =>
    \A i \in 1..Len(outcome.timeline) :
      LET seg == outcome.timeline[i]
      IN seg.pid # IDLE =>
           \A t \in seg.start..(seg.end - 1) :
             LET eligible == { q \in InputPids :
                                 InputOf(q).arrival <= t /\ RemainingAt(q, t) > 0 }
             IN /\ seg.pid \in eligible
                /\ \A q \in eligible : SrtKeyLeq(seg.pid, q, t)

\* A returned srt run of three processes in which one was preempted by a
\* later arrival with less time left.
C24_Witness ==
  /\ Returned /\ ValidInput /\ name = "srt"
  /\ Len(processes) = 3
  /\ \E p \in InputPids : Cardinality(SegmentsOf(outcome.timeline, p)) >= 2

\* C25: the srt timeline is merged: no two adjacent segments have the same
\* occupant, neither in the timeline built so far (the open segment
\* included) nor in the returned one, and segments follow each other without
\* a gap, so a process that keeps the CPU for k consecutive units appears as
\* one segment of length k.
C25_SrtMerged ==
  (name = "srt" /\ pc \in {"loop", "done"}) =>
    /\ \A i \in 1..(Len(timeline) - 1) :
         /\ timeline[i].pid # timeline[i + 1].pid
         /\ timeline[i].end = timeline[i + 1].start
    /\ (pc = "loop" /\ lastPid # NULL /\ Len(timeline) > 0) =>
         /\ timeline[Len(timeline)].pid # lastPid
         /\ timeline[Len(timeline)].end = segStart
    /\ Returned => outcome.timeline = timeline

\* A returned srt run in which a process kept the CPU for two or more units
\* in one segment and was then preempted.
C25_Witness ==
  /\ Returned /\ ValidInput /\ name = "srt"
  /\ \E i \in 1..Len(outcome.timeline) :
       LET seg == outcome.timeline[i]
       IN /\ seg.pid # IDLE
          /\ seg.end - seg.start >= 2
          /\ CompletionOf(seg.pid) > seg.end

\* The working processes that have arrived by the clock and are not completed.
Eligible == { i \in 1..Len(procs) : ~completed[i] /\ procs[i].arrival <= currentTime }

\* The policy k is at a decision point: the CPU is free and some process is
\* eligible.
DecisionPoint(k) ==
  /\ pc = "loop" /\ name = k /\ ValidInput
  /\ done < Len(procs)
  /\ Eligible # {}

\* The step runs the eligible process c from the current clock.
Chooses(c) ==
  /\ c \in Eligible
  /\ completed'[c]
  /\ Len(timeline') = Len(timeline) + 1
  /\ timeline'[Len(timeline')].pid = procs[c].pid
  /\ timeline'[Len(timeline')].start = currentTime

\* (arrival, pid) of a is not above that of b.
ArrivalPidLeq(a, b) ==
  \/ a.arrival < b.arrival
  \/ a.arrival = b.arrival /\ a.pid <= b.pid

\* C26: at every decision point of sjf the process chosen is the one with the
\* least (burst, arrival, pid) among the processes that have arrived by now
\* and are not yet completed.
C26_SjfShortestBurst ==
  [][ DecisionPoint("sjf") =>
        \E c \in Eligible :
          /\ Chooses(c)
          /\ \A j \in Eligible :
               \/ procs[c].burst < procs[j].burst
               \/ procs[c].burst = procs[j].burst /\ ArrivalPidLeq(procs[c], procs[j]) ]_vars

\* A returned sjf run in which a process ran before one that had arrived
\* earlier and was waiting, because its burst was shorter.
C26_Witness ==
  /\ Returned /\ ValidInput /\ name = "sjf"
  /\ \E i, j \in 1..Len(outcome.timeline) :
       /\ i < j
       /\ outcome.timeline[i].pid # IDLE /\ outcome.timeline[j].pid # IDLE
       /\ LET a == InputOf(outcome.timeline[i].pid)
              b == InputOf(outcome.timeline[j].pid)
          IN /\ b.arrival < a.arrival
             /\ a.burst < b.burst

\* The response ratio of a at the clock now is above that of b:
\* (now - arrival + burst) / burst, compared by cross multiplication.
RatioAbove(a, b, now) ==
  ((now - a.arrival) + a.burst) * b.burst > ((now - b.arrival) + b.burst) * a.burst

\* C27: at every decision point of hrrn the process chosen has the highest
\* response ratio (now - arrival + burst) / burst, taken at the current
\* clock and compared exactly, among the processes that have arrived by now
\* and are not yet completed; equal ratios are broken by earlier arrival and
\* then by lower pid.
C27_HrrnHighestRatio ==
  [][ DecisionPoint("hrrn") =>
        \E c \in Eligible :
          /\ Chooses(c)
          /\ \A j \in Eligible :
               \/ RatioAbove(procs[c], procs[j], currentTime)
               \/ /\ ~RatioAbove(procs[j], procs[c], currentTime)
                  /\ ArrivalPidLeq(procs[c], procs[j]) ]_vars

\* A returned hrrn run in which a process ran before a waiting one of
\* shorter burst, because the time it had waited gave it the higher ratio.
C27_Witness ==
  /\ Returned /\ ValidInput /\ name = "hrrn"
  /\ \E i, j \in 1..Len(outcome.timeline) :
       /\ i < j
       /\ outcome.timeline[i].pid # IDLE /\ outcome.timeline[j].pid # IDLE
       /\ LET a == InputOf(outcome.timeline[i].pid)
              b == InputOf(outcome.timeline[j].pid)
              now == outcome.timeline[i].start
          IN /\ b.arrival <= now
             /\ a.burst > b.burst
             /\ now > 0
             /\ RatioAbove(a, b, now)

\* The priority number the policy reads for process a: 0 if it has none.
PriorityOf(a) == IF a.priority = undefined THEN 0 ELSE a.priority

\* C28: at every decision point of the priority policy the process chosen is
\* the one with the least (priority, arrival, pid) among the processes that
\* have arrived by now and are not yet completed; a lower number is more
\* urgent and a missing priority counts as 0.
C28_PriorityMostUrgent ==
  [][ DecisionPoint("priority") =>
        \E c \in Eligible :
          /\ Chooses(c)
          /\ \A j \in Eligible :
               \/ PriorityOf(procs[c]) < PriorityOf(procs[j])
               \/ /\ PriorityOf(procs[c]) = PriorityOf(procs[j])
                  /\ ArrivalPidLeq(procs[c], procs[j]) ]_vars

\* A returned run of the priority policy in which a process without a
\* priority ran before one of priority 1 that had arrived at the same time
\* and has the lower pid.
C28_Witness ==
  /\ Returned /\ ValidInput /\ name = "priority"
  /\ \E i, j \in 1..Len(outcome.timeline) :
       /\ i < j
       /\ outcome.timeline[i].pid # IDLE
       /\ outcome.timeline[j].pid # IDLE
       /\ LET a == InputOf(outcome.timeline[i].pid)
              b == InputOf(outcome.timeline[j].pid)
          IN /\ a.priority = undefined /\ b.priority = 1
             /\ a.arrival = b.arrival
             /\ b.pid < a.pid

\* C29: fcfs runs processes in ascending (arrival, pid) order: each process
\* has one segment, and for any two processes p and q with (arrival, pid) of
\* p below that of q, p's segment ends no later than q's starts, whatever
\* their bursts and priorities.
C29_FcfsOrder ==
  (Returned /\ name = "fcfs") =>
    /\ \A p \in InputPids : Cardinality(SegmentsOf(outcome.timeline, p)) = 1
    /\ \A p, q \in InputPids :
         LET a == InputOf(p)
             b == InputOf(q)
             sp == outcome.timeline[CHOOSE i \in SegmentsOf(outcome.timeline, p) : TRUE]
             sq == outcome.timeline[CHOOSE i \in SegmentsOf(outcome.timeline, q) : TRUE]
         IN (a.arrival < b.arrival \/ (a.arrival = b.arrival /\ p < q)) => sp.end <= sq.start

\* A returned fcfs run in which, of two processes that arrived together, the
\* one with the lower pid ran first although its burst is longer and its
\* priority number higher.
C29_Witness ==
  /\ Returned /\ name = "fcfs"
  /\ \E i, j \in 1..Len(outcome.timeline) :
       /\ i < j
       /\ outcome.timeline[i].pid # IDLE /\ outcome.timeline[j].pid # IDLE
       /\ LET a == InputOf(outcome.timeline[i].pid)
              b == InputOf(outcome.timeline[j].pid)
          IN /\ a.arrival = b.arrival /\ a.pid < b.pid
             /\ a.burst > b.burst /\ a.priority > b.priority

NonPreemptive == {"fcfs", "sjf", "hrrn", "priority"}

\* C30: non-preemption: under fcfs, sjf, hrrn and priority each process
\* occupies exactly one segment of the returned timeline, of a length equal to
\* its burst, and no other segment starts within it: once started a process
\* runs to completion, even if a process with a better key arrives during
\* its run.
C30_NonPreemption ==
  (Returned /\ name \in NonPreemptive) =>
    \A p \in InputPids :
      /\ Cardinality(SegmentsOf(outcome.timeline, p)) = 1
      /\ \A i \in SegmentsOf(outcome.timeline, p) :
           /\ outcome.timeline[i].end - outcome.timeline[i].start = InputOf(p).burst
           /\ \A j \in 1..Len(outcome.timeline) :
                j # i => ~( outcome.timeline[j].start > outcome.timeline[i].start
                            /\ outcome.timeline[j].start < outcome.timeline[i].end )

\* A returned sjf run in which a process of shorter burst arrived while a
\* longer one was running, and ran only after it.
C30_Witness ==
  /\ Returned /\ ValidInput /\ name = "sjf"
  /\ \E i, j \in 1..Len(outcome.timeline) :
       /\ i < j
       /\ outcome.timeline[i].pid # IDLE /\ outcome.timeline[j].pid # IDLE
       /\ LET a == InputOf(outcome.timeline[i].pid)
              b == InputOf(outcome.timeline[j].pid)
          IN /\ b.burst < a.burst
             /\ b.arrival > outcome.timeline[i].start
             /\ b.arrival < outcome.timeline[i].end
             /\ outcome.timeline[j].start >= outcome.timeline[i].end

\* The number of dispatches of pid p before position i of the timeline tl.
DispatchesBefore(tl, p, i) == Cardinality({ j \in SegmentsOf(tl, p) : j < i })

\* C31: under mlfq the k-th dispatch of a process runs min(2, remaining) units
\* for k = 0, min(4, remaining) for k = 1 and all of its remaining work for
\* k >= 2, whatever arrives meanwhile; so every process has at most 3
\* segments in the returned timeline.
C31_MlfqDispatchLengths ==
  (Returned /\ ValidInput /\ name = "mlfq") =>
    /\ \A p \in InputPids : Cardinality(SegmentsOf(outcome.timeline, p)) <= 3
    /\ \A i \in 1..Len(outcome.timeline) :
         LET seg == outcome.timeline[i]
             k == DispatchesBefore(outcome.timeline, seg.pid, i)
             rem == RemainingAt(seg.pid, seg.start)
         IN seg.pid # IDLE =>
              seg.end - seg.start =
                (IF k = 0 THEN (IF rem < 2 THEN rem ELSE 2)
                 ELSE IF k = 1 THEN (IF rem < 4 THEN rem ELSE 4)
                 ELSE rem)

\* A returned mlfq run in which a process arrived during the third run of
\* another, which lasted several units, and ran only after it.
C31_Witness ==
  /\ Returned /\ ValidInput /\ name = "mlfq"
  /\ \E i, j \in 1..Len(outcome.timeline) :
       LET seg == outcome.timeline[i]
           other == outcome.timeline[j]
       IN /\ seg.pid # IDLE /\ other.pid # IDLE /\ other.pid # seg.pid
          /\ DispatchesBefore(outcome.timeline, seg.pid, i) = 2
          /\ seg.end - seg.start >= 2
          /\ InputOf(other.pid).arrival > seg.start
          /\ InputOf(other.pid).arrival < seg.end
          /\ other.start >= seg.end

\* The 0-based level of the highest queue that is not empty.
DispatchLevel == (CHOOSE q \in 1..Len(queues) :
                    /\ Len(queues[q]) > 0
                    /\ \A r \in 1..(q - 1) : Len(queues[r]) = 0) - 1

\* feedback or fbv is about to dispatch a process.
FeedbackDispatch ==
  /\ pc = "loop" /\ name \in {"feedback", "fbv"} /\ ValidInput
  /\ done < Len(procs)
  /\ \E q \in 1..Len(queues) : Len(queues[q]) > 0

\* C32: under feedback every segment that is not idle has length 1; under fbv
\* a process dispatched from level L runs min(2^L, remaining) units.  In both
\* a new arrival enters level 0 and a process whose slice ends with work left
\* is re-queued at level min(L + 1, 4), so the k-th dispatch of a process
\* under fbv runs min(2^min(k, 4), remaining) units.
C32_FeedbackLevels ==
  /\ [][ FeedbackDispatch =>
          LET L == DispatchLevel
              head == Head(queues[L + 1])
              quantum == IF name = "fbv" THEN 2 ^ L ELSE 1
              ran == currentTime' - currentTime
              next == IF L + 1 < 4 THEN L + 1 ELSE 4
              new == { i \in 1..Len(procs) :
                         procs[i].arrival > currentTime /\ procs[i].arrival <= currentTime' }
          IN /\ timeline'[Len(timeline')] = Segment(procs[head].pid, currentTime, currentTime')
             /\ ran = (IF procs[head].remaining < quantum THEN procs[head].remaining ELSE quantum)
             /\ \A i \in new : /\ \E j \in 1..Len(queues'[1]) : queues'[1][j] = i
                               /\ procs'[i].level = 0
             /\ procs'[head].remaining > 0 =>
                  /\ procs'[head].level = next
                  /\ Len(queues'[next + 1]) > 0
                  /\ queues'[next + 1][Len(queues'[next + 1])] = head
             /\ procs'[head].remaining = 0 =>
                  \A q \in 1..Len(queues') : \A j \in 1..Len(queues'[q]) : queues'[q][j] # head ]_vars
  /\ [](IF Returned /\ ValidInput /\ name \in {"feedback", "fbv"}
        THEN \A i \in 1..Len(outcome.timeline) :
               LET seg == outcome.timeline[i]
                   k == DispatchesBefore(outcome.timeline, seg.pid, i)
                   rem == RemainingAt(seg.pid, seg.start)
                   quantum == IF name = "fbv" THEN 2 ^ (IF k < 4 THEN k ELSE 4) ELSE 1
               IN seg.pid # IDLE =>
                    seg.end - seg.start = (IF rem < quantum THEN rem ELSE quantum)
        ELSE TRUE)

\* A returned fbv run in which the sixth dispatch of a process, its second
\* from the lowest queue, ran 16 units and left work for a seventh.
C32_Witness ==
  /\ Returned /\ ValidInput /\ name = "fbv"
  /\ \E i \in 1..Len(outcome.timeline) :
       LET seg == outcome.timeline[i]
       IN /\ seg.pid # IDLE
          /\ DispatchesBefore(outcome.timeline, seg.pid, i) = 5
          /\ seg.end - seg.start = 16
          /\ CompletionOf(seg.pid) > seg.end

\* feedback, fbv or mlfq is about to dispatch a process.
MultiLevelDispatch ==
  /\ pc = "loop" /\ name \in {"feedback", "fbv", "mlfq"} /\ ValidInput
  /\ done < Len(procs)
  /\ \E q \in 1..Len(queues) : Len(queues[q]) > 0

\* s without its first element equal to x.
Without(s, x) ==
  LET at == CHOOSE i \in 1..Len(s) : s[i] = x /\ \A j \in 1..(i - 1) : s[j] # x
  IN SubSeq(s, 1, at - 1) \o SubSeq(s, at + 1, Len(s))

\* C33: dispatch rule of feedback, fbv and mlfq: whenever a process is
\* dispatched from queue level L at time t, every queue of a level below L is
\* empty at t and no arrived, unfinished process is at such a level, and the
\* process dispatched is the head of queue L, the one that entered it
\* earliest: the queues are first in, first out, the step takes one process
\* out and puts processes in at the tails only.
C33_DispatchRule ==
  [][ MultiLevelDispatch =>
        \E L \in 0..(Len(queues) - 1) :
          LET ran == CHOOSE i \in 1..Len(procs) : procs[i].pid = timeline'[Len(timeline')].pid
          IN /\ Len(timeline') = Len(timeline) + 1
             /\ timeline'[Len(timeline')].start = currentTime
             /\ procs[ran].level = L
             /\ \A q \in 1..L : Len(queues[q]) = 0
             /\ \A i \in 1..Len(procs) :
                  (procs[i].arrival <= currentTime /\ procs[i].remaining > 0) =>
                    procs[i].level >= L
             /\ Len(queues[L + 1]) > 0
             /\ queues[L + 1][1] = ran
             /\ \A q \in 1..Len(queues) :
                  LET kept == IF q = L + 1 THEN Without(queues[q], ran) ELSE queues[q]
                  IN /\ Len(queues'[q]) >= Len(kept)
                     /\ SubSeq(queues'[q], 1, Len(kept)) = kept ]_vars

\* mlfq is about to dispatch from level 1, where two processes wait, while a
\* third waits at level 2.
C33_Witness ==
  /\ pc = "loop" /\ name = "mlfq" /\ ValidInput
  /\ done < Len(procs)
  /\ Len(queues[1]) = 0 /\ Len(queues[2]) >= 2 /\ Len(queues[3]) >= 1

\* C34: the AI rate limiter: over any sequence of calls of checkRateLimit at
\* non-decreasing times, at most maxRequests = 10 calls are allowed within any
\* sliding window of windowMs = 60 seconds; that is, at every moment at most
\* 10 of the allowed calls lie less than 60 seconds back.
C34_SlidingWindowLimit == Len(recent) <= maxRequests

\* C35: the limiter's cooldown: once checkRateLimit has denied a call because
\* the limit was reached, every call made during the following cooldownMs =
\* 30 seconds is denied (so the next allowed call comes no earlier), and the
\* first call after those 30 seconds is allowed with an emptied history.
C35_CooldownAfterLimit ==
  hit.at # NoTime =>
    /\ hit.next # NoTime => hit.next - hit.at >= cooldownMs
    /\ hit.late \in {"", "allowed"}

\* The timestamps equal to t in the request history rl.
Stamps(rl, t) == Cardinality({ i \in 1..Len(rl.requests) : rl.requests[i] = t })

\* C40: each invocation of a public AI function that passes input validation
\* consumes exactly one slot of the rate limit: it appends exactly one
\* timestamp to RATE_LIMIT.requests when its request is allowed and sent, and
\* none when it is denied.
C40_OneSlotPerCall ==
  [][ (apiKey /\ dateNow' = dateNow /\ pending' >= pending) =>
        Stamps(RATE_LIMIT', dateNow) - Stamps(RATE_LIMIT, dateNow) =
          (IF pending' = pending + 1 THEN 1 ELSE 0) ]_vars

\* The total length of the segments of the timeline tl that pid p occupies.
OccupiedBy(tl, p) ==
  SumSeq([ i \in 1..Len(tl) |-> IF tl[i].pid = p THEN tl[i].end - tl[i].start ELSE 0 ])

\* C36: no process runs before it arrives: for each simulator and every valid
\* input, every segment of the timeline that pid p occupies, in the timeline
\* as it is built and in the returned one, starts at or after p's arrival;
\* and in the returned timeline the segments of p add up to exactly p's
\* burst.
C36_ArrivalAndBurst ==
  ValidInput =>
    /\ pc \in {"loop", "done"} =>
         \A i \in 1..Len(timeline) :
           timeline[i].pid # IDLE =>
             /\ timeline[i].pid \in InputPids
             /\ timeline[i].start >= InputOf(timeline[i].pid).arrival
    /\ Returned =>
         /\ \A i \in 1..Len(outcome.timeline) :
              outcome.timeline[i].pid # IDLE =>
                /\ outcome.timeline[i].pid \in InputPids
                /\ outcome.timeline[i].start >= InputOf(outcome.timeline[i].pid).arrival
         /\ \A p \in InputPids :
              OccupiedBy(outcome.timeline, p) = InputOf(p).burst

\* A returned srt run in which a process that arrived after time 0 was
\* dispatched at the very time it arrived, preempting another, which got the
\* rest of its burst in a later segment.
C36_Witness ==
  /\ Returned /\ ValidInput /\ name = "srt"
  /\ \E i \in 2..Len(outcome.timeline) :
       LET seg == outcome.timeline[i]
           before == outcome.timeline[i - 1]
       IN /\ seg.pid # IDLE /\ before.pid # IDLE
          /\ InputOf(seg.pid).arrival > 0
          /\ seg.start = InputOf(seg.pid).arrival
          /\ OccupiedBy(outcome.timeline, before.pid) > before.end - before.start

\* The end of the last segment of the timeline tl (0 for an empty one).
LastEnd(tl) == IF Len(tl) = 0 THEN 0 ELSE tl[Len(tl)].end

\* The total length of the idle segments of tl.
IdleTime(tl) ==
  SumSeq([ i \in 1..Len(tl) |-> IF tl[i].pid = IDLE THEN tl[i].end - tl[i].start ELSE 0 ])

\* The time at which a CPU that is never idle while a process of ps waits
\* has finished those of ps at the positions S, starting free at time t: the
\* processes taken by arrival, each begun when it has arrived and the CPU is
\* free.
RECURSIVE BusyUntil(_, _, _)
BusyUntil(ps, S, t) ==
  IF S = {} THEN t
  ELSE LET i == CHOOSE i \in S : \A j \in S : ps[i].arrival <= ps[j].arrival
       IN BusyUntil(ps, S \ {i},
                    (IF t < ps[i].arrival THEN ps[i].arrival ELSE t) + ps[i].burst)

Makespan(ps) == BusyUntil(ps, 1..Len(ps), 0)

\* C37: all policies are work-conserving and agree on the makespan: for every
\* valid input the end of the last segment of the returned timeline is the
\* time a never needlessly idle CPU finishes the list, and the idle segments
\* add up to that time less the sum of the bursts, under each of the nine
\* simulators (rr with any positive quantum); and the outcomes handleCompare
\* collects for one list agree in both.
C37_SameMakespan ==
  /\ (Returned /\ ValidInput) =>
       /\ LastEnd(outcome.timeline) = Makespan(processes)
       /\ IdleTime(outcome.timeline) = Makespan(processes) - TotalBurst
  /\ compare.status = "done" =>
       \A k1, k2 \in DOMAIN compare.allResults \cap Simulators :
         /\ LastEnd(compare.allResults[k1].timeline) = LastEnd(compare.allResults[k2].timeline)
         /\ IdleTime(compare.allResults[k1].timeline) = IdleTime(compare.allResults[k2].timeline)

\* handleCompare has collected the outcomes of all nine simulators for a list
\* of two processes on which the CPU is idle for a while, and fcfs and sjf
\* give different timelines.
C37_Witness ==
  /\ compare.status = "done"
  /\ Simulators \subseteq DOMAIN compare.allResults
  /\ Len(compare.processes) = 2
  /\ IdleTime(compare.allResults["fcfs"].timeline) > 0
  /\ compare.allResults["fcfs"].timeline # compare.allResults["sjf"].timeline
  /\ LastEnd(compare.allResults["srt"].timeline) = Makespan(compare.processes)

\* srt is in its loop with a segment open: the process lastPid ran the unit
\* of time before and has time left.
SrtRunning == pc = "loop" /\ name = "srt" /\ ValidInput /\ lastPid # NULL

\* The working copy of the process that ran the unit of time before.
SrtLast == procs[CHOOSE i \in 1..Len(procs) : procs[i].pid = lastPid]

\* C38: under srt a switch away from an unfinished process happens only at
\* a time t at which the newly chosen process arrives, and only if that
\* process's burst is strictly below the time the preempted process has left
\* at t: a process that arrives with a burst equal to the running process's
\* time left never preempts it.  So it is in every step of the loop and in
\* the returned timeline.
C38_SrtPreemption ==
  /\ [][ SrtRunning =>
          \A i \in 1..Len(procs) :
            (procs'[i].remaining < procs[i].remaining /\ procs[i].pid # lastPid) =>
              /\ procs[i].arrival = currentTime
              /\ procs[i].remaining = procs[i].burst
              /\ procs[i].burst < SrtLast.remaining
              /\ SrtLast.remaining > 0 ]_vars
  /\ [](IF Returned /\ ValidInput /\ name = "srt"
        THEN \A i \in 1..(Len(outcome.timeline) - 1) :
               LET seg == outcome.timeline[i]
                   next == outcome.timeline[i + 1]
               IN (seg.pid # IDLE /\ RemainingAt(seg.pid, seg.end) > 0) =>
                    /\ next.pid # IDLE
                    /\ InputOf(next.pid).arrival = seg.end
                    /\ InputOf(next.pid).burst < RemainingAt(seg.pid, seg.end)
        ELSE TRUE)

\* A returned srt run in which one process was preempted by a newcomer of
\* shorter burst, and another kept the CPU at a time when a process arrived
\* with a burst equal to the time it had left.
C38_Witness ==
  /\ Returned /\ ValidInput /\ name = "srt"
  /\ \E i \in 1..(Len(outcome.timeline) - 1) :
       /\ outcome.timeline[i].pid # IDLE
       /\ RemainingAt(outcome.timeline[i].pid, outcome.timeline[i].end) > 0
  /\ \E i \in 1..Len(outcome.timeline) : \E q \in InputPids :
       LET seg == outcome.timeline[i]
           t == InputOf(q).arrival
       IN /\ seg.pid # IDLE /\ seg.pid # q
          /\ seg.start < t /\ t < seg.end
          /\ InputOf(q).burst = RemainingAt(seg.pid, t)

\* The set of the per-process results of an outcome.
ResultSet(o) == { o.results[i] : i \in 1..Len(o.results) }

\* C39: input-order independence: for each simulator and every valid input
\* with pairwise distinct pids, the call with the list in another order
\* returns the same timeline and the same set of per-process results as the
\* call before it.
C39_OrderIndependence ==
  (Returned /\ ValidInput /\ earlier # Pending) =>
    /\ earlier.kind = "ok"
    /\ outcome.timeline = earlier.timeline
    /\ ResultSet(outcome) = ResultSet(earlier)

\* The second of two returned calls under a policy that picks by a key of its
\* own, on lists of three processes that all arrive together and tie in that
\* key, the second list being the first in another order.
C39_Witness ==
  /\ Returned /\ ValidInput /\ earlier # Pending
  /\ name \in {"sjf", "hrrn", "priority", "srt"}
  /\ Len(processes) = 3
  /\ \A i, j \in 1..3 :
       /\ processes[i].arrival = processes[j].arrival
       /\ processes[i].burst = processes[j].burst
       /\ processes[i].priority = processes[j].priority
  /\ processes[1].pid > processes[2].pid
  /\ Len(outcome.timeline) >= 3

====
